---- MODULE Spec2Model ----
(***************************************************************************)
(* Model of the equation definitions and sample-set declarations of the    *)
(* projectile and spring-mass examples (projectile.py, spring_mass_ode.py, *)
(* spring_mass_solver.py, spring_mass_inverse.py as listed in the two      *)
(* notebooks), and of the notebooks' run sections: the cells that set the  *)
(* environment, launch a script and plot its validator's result bundle.    *)
(*                                                                         *)
(* Numbers are exact: a rational is a pair <<n, d>> in lowest terms with   *)
(* d > 0, and a real of the projectile example is r + s*sqrt(3) with r, s  *)
(* rational (cos(pi/3) = 1/2, sin(pi/3) = sqrt(3)/2).  Floating-point      *)
(* rounding is not modelled.                                               *)
(***************************************************************************)
EXTENDS Integers, Sequences, FiniteSets, TLC

VARIABLES
    pc,           \* example -> position in its run() function
    eqs,          \* example -> result of the equation class constructor
    nets,         \* example -> set of instantiated networks
    invar_numpy,  \* example -> dict of input arrays held by run()
    outvar_numpy, \* example -> dict of target arrays held by run()
    constraints,  \* example -> dict name -> constraint added to the domain
    validators,   \* example -> sequence of validators added to the domain
    inferencers,  \* example -> dict name -> inferencer added to the domain
    monitors,     \* example -> sequence of monitors added to the domain
    solver,       \* example -> the solver run() made of its domain, once solved
    bpc, bk, bm, bout,      \* one SpringMass(k, m) call with arbitrary arguments
    gpc, gstop, gstep, gsets, \* the array-backed sets on an arbitrary grid
    spc, sset, spoints,     \* one boundary sample set and the points drawn for it
    environ,      \* notebook -> os.environ of its kernel
    cell,         \* example -> the next cell of its run section
    proc,         \* example -> the process of its training script
    completed,    \* example -> the runs of its script that ran to the end
    files,        \* path -> content, for the files written below the notebooks
    figure,       \* example -> what its plot cell last produced
    output        \* example -> the output area of its launch cell

vars == <<pc, eqs, nets, invar_numpy, outvar_numpy, constraints, validators,
          inferencers, monitors, solver, bpc, bk, bm, bout, gpc, gstop, gstep,
          gsets, spc, sset, spoints, environ, cell, proc, completed, files,
          figure, output>>

runVars == <<pc, eqs, nets, invar_numpy, outvar_numpy, constraints, validators,
             inferencers, monitors, solver>>
builderVars == <<bpc, bk, bm, bout>>
gridVars == <<gpc, gstop, gstep, gsets>>
samplerVars == <<spc, sset, spoints>>
notebookVars == <<environ, cell, proc, completed, files, figure, output>>

-----------------------------------------------------------------------------
(* Exact rational arithmetic *)

RECURSIVE GCD(_, _)
GCD(a, b) == IF b = 0 THEN a ELSE GCD(b, a % b)

Abs(n) == IF n < 0 THEN -n ELSE n

\* the rational n/d (d # 0) in lowest terms with a positive denominator
Rat(n, d) ==
    LET g == GCD(Abs(n), Abs(d))
        sg == IF d < 0 THEN -1 ELSE 1
    IN  <<sg * (n \div g), sg * (d \div g)>>

RatInt(n) == <<n, 1>>
RatAdd(p, q) == Rat(p[1] * q[2] + q[1] * p[2], p[2] * q[2])
RatNeg(p) == <<-p[1], p[2]>>
RatSub(p, q) == RatAdd(p, RatNeg(q))
RatMul(p, q) == Rat(p[1] * q[1], p[2] * q[2])
RatDiv(p, q) == Rat(p[1] * q[2], p[2] * q[1])
RatLess(p, q) == p[1] * q[2] < q[1] * p[2]
\* the least integer >= p
RatCeil(p) == -((-p[1]) \div p[2])

\* r + s*sqrt(3)
Real(r, s) == [r |-> r, s |-> s]
RealRat(p) == Real(p, RatInt(0))
RealScale(p, z) == Real(RatMul(p, z.r), RatMul(p, z.s))
RealSub(z, w) == Real(RatSub(z.r, w.r), RatSub(z.s, w.s))

-----------------------------------------------------------------------------
(* Python values passed as coefficients, and sympy atoms *)

PyInt(n) == [ty |-> "int", n |-> RatInt(n), s |-> ""]
PyFloat(p) == [ty |-> "float", n |-> p, s |-> ""]
PyStr(s) == [ty |-> "str", n |-> RatInt(0), s |-> s]
PyNone == [ty |-> "NoneType", n |-> RatInt(0), s |-> ""]
\* an object of a sympy expression type, e.g. Symbol("c")
PySymbol(s) == [ty |-> "Symbol", n |-> RatInt(0), s |-> s]

\* sympy.Number(v): a numeric constant
Number(v) == [kind |-> "Number", n |-> v.n, s |-> "", raw |-> v.ty]
\* sympy.Function(name)(t): an unknown function of t
Function(v) == [kind |-> "Function", n |-> RatInt(0), s |-> v.s, raw |-> v.ty]
\* a value no branch converted: it enters the expression as it was passed
Unconverted(v) == [kind |-> "Raw", n |-> v.n, s |-> v.s, raw |-> v.ty]

-----------------------------------------------------------------------------
(* spring_mass_ode.py: class SpringMass *)

\* a coefficient handled with the str branch and the float/int branch swapped
CoefficientSwapped(c) ==
    IF c.ty = "str" THEN Number(c)
    ELSE IF c.ty \in {"float", "int"} THEN Function(c)
    ELSE Unconverted(c)

\* if type(c) is str: c = Function(c)(t)  elif type(c) in [float, int]: c = Number(c)
Coefficient(c) ==
    IF c.ty = "str" THEN Function(c)
    ELSE IF c.ty \in {"float", "int"} THEN Number(c)
    ELSE Unconverted(c)

\* c * <expression>: defined for sympy expressions, a TypeError for None
Multiplies(c) == c.kind \in {"Number", "Function"} \/ c.raw = "Symbol"

\* t = Symbol("t"); input_variables = {"t": t}: the variable every unknown
\* function is a function of
IndependentVariable == "t"

\* sgn * f(t) differentiated d times
Unknown(sgn, f, d) == [sgn |-> sgn, f |-> f, d |-> d]
\* sgn * c * (sum of arg)
Term(sgn, c, arg) == [sgn |-> sgn, c |-> c, arg |-> arg]

NoEquations == [status |-> "undefined", equations |-> <<>>]

\* run() has not reached slv = Solver(cfg, domain)
NoSolver == [status |-> "none", constraints |-> {}, validators |-> 0,
             inferencers |-> {}, monitors |-> 0, max_steps |-> 0]

\* SpringMass.__init__ with the sign of the k3 coupling in ode_x2 flipped
SpringMassFlipped(k, m) ==
    LET k1 == Coefficient(k[1])  k2 == Coefficient(k[2])
        k3 == Coefficient(k[3])  k4 == Coefficient(k[4])
        m1 == Coefficient(m[1])  m2 == Coefficient(m[2])
        m3 == Coefficient(m[3])
    IN  IF \A c \in {k1, k2, k3, k4, m1, m2, m3} : Multiplies(c)
        THEN [status |-> "ok",
              equations |->
                [ode_x1 |-> <<Term(1, m1, <<Unknown(1, "x1", 2)>>),
                              Term(1, k1, <<Unknown(1, "x1", 0)>>),
                              Term(-1, k2, <<Unknown(1, "x2", 0), Unknown(-1, "x1", 0)>>)>>,
                 ode_x2 |-> <<Term(1, m2, <<Unknown(1, "x2", 2)>>),
                              Term(1, k2, <<Unknown(1, "x2", 0), Unknown(-1, "x1", 0)>>),
                              Term(1, k3, <<Unknown(1, "x3", 0), Unknown(-1, "x2", 0)>>)>>,
                 ode_x3 |-> <<Term(1, m3, <<Unknown(1, "x3", 2)>>),
                              Term(1, k3, <<Unknown(1, "x3", 0), Unknown(-1, "x2", 0)>>),
                              Term(1, k4, <<Unknown(1, "x3", 0)>>)>>]]
        ELSE [status |-> "TypeError", equations |-> <<>>]

\* SpringMass.__init__ with m1 and k4 taken from the wrong tuple positions
SpringMassMisindexed(k, m) ==
    LET k1 == Coefficient(k[1])  k2 == Coefficient(k[2])
        k3 == Coefficient(k[3])  k4 == Coefficient(k[4])
        m1 == Coefficient(m[1])  m2 == Coefficient(m[2])
        m3 == Coefficient(m[3])
    IN  IF \A c \in {k1, k2, k3, k4, m1, m2, m3} : Multiplies(c)
        THEN [status |-> "ok",
              equations |->
                [ode_x1 |-> <<Term(1, m1, <<Unknown(1, "x1", 2)>>),
                              Term(1, k1, <<Unknown(1, "x1", 0)>>),
                              Term(-1, k2, <<Unknown(1, "x2", 0), Unknown(-1, "x1", 0)>>)>>,
                 ode_x2 |-> <<Term(1, m1, <<Unknown(1, "x2", 2)>>),
                              Term(1, k2, <<Unknown(1, "x2", 0), Unknown(-1, "x1", 0)>>),
                              Term(-1, k3, <<Unknown(1, "x3", 0), Unknown(-1, "x2", 0)>>)>>,
                 ode_x3 |-> <<Term(1, m3, <<Unknown(1, "x3", 2)>>),
                              Term(1, k3, <<Unknown(1, "x3", 0), Unknown(-1, "x2", 0)>>),
                              Term(1, k4, <<Unknown(1, "x3", 0)>>)>>]]
        ELSE [status |-> "TypeError", equations |-> <<>>]

\* SpringMass.__init__(k, m): the seven conversions, then the three residuals
\*   ode_x1 = m1*x1'' + k1*x1 - k2*(x2 - x1)
\*   ode_x2 = m2*x2'' + k2*(x2 - x1) - k3*(x3 - x2)
\*   ode_x3 = m3*x3'' + k3*(x3 - x2) + k4*x3
\* A coefficient that cannot be multiplied makes the constructor raise.
SpringMass(k, m) ==
    LET k1 == Coefficient(k[1])  k2 == Coefficient(k[2])
        k3 == Coefficient(k[3])  k4 == Coefficient(k[4])
        m1 == Coefficient(m[1])  m2 == Coefficient(m[2])
        m3 == Coefficient(m[3])
    IN  IF \A c \in {k1, k2, k3, k4, m1, m2, m3} : Multiplies(c)
        THEN [status |-> "ok",
              equations |->
                [ode_x1 |-> <<Term(1, m1, <<Unknown(1, "x1", 2)>>),
                              Term(1, k1, <<Unknown(1, "x1", 0)>>),
                              Term(-1, k2, <<Unknown(1, "x2", 0), Unknown(-1, "x1", 0)>>)>>,
                 ode_x2 |-> <<Term(1, m2, <<Unknown(1, "x2", 2)>>),
                              Term(1, k2, <<Unknown(1, "x2", 0), Unknown(-1, "x1", 0)>>),
                              Term(-1, k3, <<Unknown(1, "x3", 0), Unknown(-1, "x2", 0)>>)>>,
                 ode_x3 |-> <<Term(1, m3, <<Unknown(1, "x3", 2)>>),
                              Term(1, k3, <<Unknown(1, "x3", 0), Unknown(-1, "x2", 0)>>),
                              Term(1, k4, <<Unknown(1, "x3", 0)>>)>>]]
        ELSE [status |-> "TypeError", equations |-> <<>>]

\* the (residual, term) places where each coefficient of SpringMass.__init__ occurs
Occurrences ==
    [k1 |-> {<<"ode_x1", 2>>},
     k2 |-> {<<"ode_x1", 3>>, <<"ode_x2", 2>>},
     k3 |-> {<<"ode_x2", 3>>, <<"ode_x3", 2>>},
     k4 |-> {<<"ode_x3", 3>>},
     m1 |-> {<<"ode_x1", 1>>},
     m2 |-> {<<"ode_x2", 1>>},
     m3 |-> {<<"ode_x3", 1>>}]

\* the argument passed for each coefficient name
Passed(k, m) ==
    [k1 |-> k[1], k2 |-> k[2], k3 |-> k[3], k4 |-> k[4],
     m1 |-> m[1], m2 |-> m[2], m3 |-> m[3]]

-----------------------------------------------------------------------------
(* projectile_eqn.py: class ProjectileEquation *)

\* ode_x = x.diff(t, 2), ode_y = y.diff(t, 2): no coefficient, no source term
ProjectileEquation ==
    [status |-> "ok",
     equations |->
       [ode_x |-> <<Term(1, Number(PyInt(1)), <<Unknown(1, "x", 2)>>)>>,
        ode_y |-> <<Term(1, Number(PyInt(1)), <<Unknown(1, "y", 2)>>)>>]]

-----------------------------------------------------------------------------
(* numpy: an array is kept as its shape and the expression that generates *)
(* its entries from the np.arange grid it was computed from; Item          *)
(* evaluates one entry                                                     *)

\* np.arange with the stop value kept as a last point (as np.linspace does)
ArangeInclusive(start, stop, step) ==
    [n |-> RatCeil(RatDiv(RatSub(stop, start), step)) + 1, cols |-> 0,
     start |-> start, step |-> step, f |-> "grid"]

\* np.arange(start, stop, step): ceil((stop - start)/step) points start + i*step
Arange(start, stop, step) ==
    [n |-> RatCeil(RatDiv(RatSub(stop, start), step)), cols |-> 0,
     start |-> start, step |-> step, f |-> "grid"]

\* np.expand_dims(a, axis=-1): shape (n,) becomes (n, 1)
ExpandDims(a) == [a EXCEPT !.cols = 1]

\* np.full_like(a[0], 0): the shape of one row of a instead of the shape of a
FullLike0OfRow(a) == [a EXCEPT !.f = "zero", !.n = 1]

\* np.full_like(a, 0): the shape of a, every entry 0
FullLike0(a) == [a EXCEPT !.f = "zero"]

\* an expression f of the grid array a, evaluated entry by entry
Elementwise(f, a) == [a EXCEPT !.f = f]

\* a.shape
Shape(a) == IF a.cols = 0 THEN <<a.n>> ELSE <<a.n, a.cols>>

\* the grid point of row i (rows are numbered from 1)
GridPoint(a, i) == RatAdd(a.start, RatMul(RatInt(i - 1), a.step))

\* dict.update({key: value}) replacing the mapping by the new entry alone
DictReplace(d, key, value) == [x \in {key} |-> value]

\* d.update(dict.fromkeys([*d, key], value)): every key bound to the new value
DictUpdateAll(d, key, value) == [x \in DOMAIN d \cup {key} |-> value]

\* d.update({key: value})
DictUpdate(d, key, value) ==
    [x \in DOMAIN d \cup {key} |-> IF x = key THEN value ELSE d[x]]

EmptyDict == [x \in {} |-> 0]

\* cos and sin at the multiples th*pi of pi whose values lie in Q(sqrt 3)
NpCos(th) ==
    CASE th = Rat(0, 1) -> Real(RatInt(1), RatInt(0))
      [] th = Rat(1, 6) -> Real(RatInt(0), Rat(1, 2))
      [] th = Rat(1, 3) -> Real(Rat(1, 2), RatInt(0))
      [] th = Rat(1, 2) -> Real(RatInt(0), RatInt(0))

NpSin(th) ==
    CASE th = Rat(0, 1) -> Real(RatInt(0), RatInt(0))
      [] th = Rat(1, 6) -> Real(Rat(1, 2), RatInt(0))
      [] th = Rat(1, 3) -> Real(RatInt(0), Rat(1, 2))
      [] th = Rat(1, 2) -> Real(RatInt(1), RatInt(0))

-----------------------------------------------------------------------------
(* The three examples and their Hydra configurations *)

Examples == {"projectile", "spring_mass_solver", "spring_mass_inverse"}

\* training and batch_size sections of each conf/config*.yaml
cfg ==
    [projectile |->
        [training |-> [rec_validation_freq |-> 1000, rec_inference_freq |-> 1000,
                       rec_monitor_freq |-> 1000, rec_constraint_freq |-> 2000,
                       max_steps |-> 5000],
         batch_size |-> [initial_x |-> 100, interior |-> 1000]],
     spring_mass_solver |->
        [training |-> [rec_results_freq |-> 1000, max_steps |-> 10000],
         batch_size |-> [IC |-> 10, interior |-> 500]],
     spring_mass_inverse |->
        [training |-> [rec_results_freq |-> 1000, max_steps |-> 10000],
         batch_size |-> [IC |-> 10, data |-> 1000]]]

\* the inverse script asking for the batch sizes the forward script asks for
BatchSizeReferenceOfSolver(e, name) ==
    IF e = "projectile"
    THEN IF name = "IC" THEN "initial_x" ELSE "interior"
    ELSE IF name = "IC" THEN "IC" ELSE "interior"

\* the key <name> of cfg.batch_size.<name> in the constraint that script e
\* adds under the given name
BatchSizeReference(e, name) ==
    CASE e = "projectile" -> IF name = "IC" THEN "initial_x" ELSE "interior"
      [] e = "spring_mass_solver" -> IF name = "IC" THEN "IC" ELSE "interior"
      [] e = "spring_mass_inverse" -> IF name = "IC" THEN "IC" ELSE "data"

\* the detach list of the inverse script without the accelerations
DetachNamesWithoutAccelerations ==
    <<"x1", "x1__t", "x2", "x2__t", "x3", "x3__t">>

\* spring_mass_inverse.py: the detach_names list passed to sm.make_nodes
DetachNames ==
    <<"x1", "x1__t", "x1__t__t", "x2", "x2__t", "x2__t__t",
      "x3", "x3__t", "x3__t__t">>

\* eq.make_nodes(detach_names=...): the equation nodes of the graph, with the
\* names whose gradients are cut before they enter the residuals
MakeNodes(eq, detach_names) ==
    [status |-> eq.status, equations |-> eq.equations,
     detach_names |-> detach_names]

\* a network instantiated with its output keys left out
NetworkWithoutOutputs(name, input_keys, output_keys) ==
    [name |-> name, input_keys |-> input_keys, output_keys |-> <<>>]

\* instantiate_arch(input_keys=..., output_keys=...).make_node(name=...)
Network(name, input_keys, output_keys) ==
    [name |-> name, input_keys |-> input_keys, output_keys |-> output_keys]

\* PointwiseBoundaryConstraint(outvar=..., batch_size=..., parameterization={t: (lo, hi)})
BoundaryConstraint(outvar, batch_size, lo, hi) ==
    [kind |-> "PointwiseBoundaryConstraint", outvar |-> outvar,
     batch_size |-> batch_size, parameterization |-> [t |-> <<lo, hi>>]]

\* PointwiseConstraint.from_numpy(invar=..., outvar=..., batch_size=...)
FromNumpy(invar, outvar, batch_size) ==
    [kind |-> "PointwiseConstraint", invar |-> invar, outvar |-> outvar,
     batch_size |-> batch_size]

\* PointwiseValidator(invar=..., true_outvar=..., batch_size=...)
PointwiseValidator(invar, true_outvar, batch_size) ==
    [invar |-> invar, true_outvar |-> true_outvar, batch_size |-> batch_size]

\* PointwiseInferencer(invar=..., output_names=..., batch_size=...)
PointwiseInferencer(invar, output_names, batch_size) ==
    [invar |-> invar, output_names |-> output_names, batch_size |-> batch_size]

\* PointwiseMonitor(invar, output_names=..., metrics={name: mean of the output})
PointwiseMonitor(invar, output_names, metric) ==
    [invar |-> invar, output_names |-> output_names, metrics |-> {metric}]

-----------------------------------------------------------------------------
(* projectile.py: run *)

v_o == RatInt(40)       \* initial velocity
theta == Rat(1, 3)      \* initial angle np.pi/3, as a multiple of pi
g_half == RatMul(Rat(1, 2), Rat(981, 100))   \* 0.5*9.81

\* x: v_o*np.cos(theta)*T_val with cos and sin exchanged
X_valSwapped(t) == RealScale(t, RealScale(v_o, NpSin(theta)))

\* X_val = v_o*np.cos(theta)*T_val, at one entry t of T_val
X_val(t) == RealScale(t, RealScale(v_o, NpCos(theta)))

\* Y_val with the factor 0.5 of the gravity term left out
Y_valWithoutHalf(t) ==
    RealSub(RealScale(t, RealScale(v_o, NpSin(theta))),
            RealRat(RatMul(Rat(981, 100), RatMul(t, t))))

\* Y_val = v_o*np.sin(theta)*T_val - 0.5*9.81*(T_val**2), at one entry t
Y_val(t) ==
    RealSub(RealScale(t, RealScale(v_o, NpSin(theta))),
            RealRat(RatMul(g_half, RatMul(t, t))))

\* the validator's invar_numpy and outvar_numpy on np.arange(0., stop, delta_T)
ProjectileValidation(stop, delta_T) ==
    LET t_val == Arange(RatInt(0), stop, delta_T)
        T_val == ExpandDims(t_val)
    IN  [invar |-> [t |-> T_val],
         outvar |-> [x |-> Elementwise("X_val", T_val),
                     y |-> Elementwise("Y_val", T_val)]]

\* the IC outvar with the two velocity components exchanged
ProjectileICSwapped ==
    [x |-> RealRat(RatInt(0)), y |-> RealRat(RatInt(0)),
     x__t |-> RealScale(v_o, NpSin(theta)),
     y__t |-> RealScale(v_o, NpCos(theta))]

\* the IC outvar: x 0.0, y 0.0, x__t v_o*cos(theta), y__t v_o*sin(theta)
ProjectileIC ==
    [x |-> RealRat(RatInt(0)), y |-> RealRat(RatInt(0)),
     x__t |-> RealScale(v_o, NpCos(theta)),
     y__t |-> RealScale(v_o, NpSin(theta))]

\* the interior outvar with the sign of gravity lost: ode_y 9.81
ProjectileInteriorUpward ==
    [ode_x |-> RealRat(RatInt(0)), ode_y |-> RealRat(Rat(981, 100))]

\* the interior outvar: ode_x 0.0, ode_y -9.81
ProjectileInterior ==
    [ode_x |-> RealRat(RatInt(0)), ode_y |-> RealRat(Rat(-981, 100))]

-----------------------------------------------------------------------------
(* spring_mass_solver.py and spring_mass_inverse.py: run *)

\* a*np.cos(w*t) with w*w = w2, kept symbolic
Harmonic(a, w2, t) == [a |-> a, w2 |-> w2, t |-> t]

\* x1 with the amplitude of cos(2*t) lowered to 1/4
X1Damped(t) == <<Harmonic(Rat(1, 6), 1, t), Harmonic(Rat(1, 2), 3, t),
                 Harmonic(Rat(1, 4), 4, t)>>

\* (1/6)*cos(t) + (1/2)*cos(sqrt(3)*t) + (1/3)*cos(2*t)
X1(t) == <<Harmonic(Rat(1, 6), 1, t), Harmonic(Rat(1, 2), 3, t),
           Harmonic(Rat(1, 3), 4, t)>>
\* (2/6)*cos(t) + (0/2)*cos(sqrt(3)*t) - (1/3)*cos(2*t)
X2(t) == <<Harmonic(Rat(2, 6), 1, t), Harmonic(Rat(0, 2), 3, t),
           Harmonic(RatNeg(Rat(1, 3)), 4, t)>>
\* (1/6)*cos(t) - (1/2)*cos(sqrt(3)*t) + (1/3)*cos(2*t)
X3(t) == <<Harmonic(Rat(1, 6), 1, t), Harmonic(RatNeg(Rat(1, 2)), 3, t),
           Harmonic(Rat(1, 3), 4, t)>>

\* invar_numpy and outvar_numpy of the closed-form solution on np.arange(0, t_max, deltaT)
SpringMassData(t_max, deltaT) ==
    LET t == ExpandDims(Arange(RatInt(0), t_max, deltaT))
    IN  [invar |-> [t |-> t],
         outvar |-> [x1 |-> Elementwise("X1", t),
                     x2 |-> Elementwise("X2", t),
                     x3 |-> Elementwise("X3", t)]]

\* entry i of array a: its generating expression at the grid point of row i
Item(a, i) ==
    LET t == GridPoint(a, i)
    IN  CASE a.f = "grid" -> t
          [] a.f = "zero" -> RatInt(0)
          [] a.f = "X_val" -> X_val(t)
          [] a.f = "Y_val" -> Y_val(t)
          [] a.f = "X1" -> X1(t)
          [] a.f = "X2" -> X2(t)
          [] a.f = "X3" -> X3(t)

\* the IC outvar with a derivative key spelt with one underscore
SpringMassICMisspelt ==
    [x1 |-> RealRat(RatInt(1)), x2 |-> RealRat(RatInt(0)), x3 |-> RealRat(RatInt(0)),
     x1__t |-> RealRat(RatInt(0)), x2__t |-> RealRat(RatInt(0)),
     x3_t |-> RealRat(RatInt(0))]

\* the IC outvar of both spring-mass scripts
SpringMassIC ==
    [x1 |-> RealRat(RatInt(1)), x2 |-> RealRat(RatInt(0)), x3 |-> RealRat(RatInt(0)),
     x1__t |-> RealRat(RatInt(0)), x2__t |-> RealRat(RatInt(0)),
     x3__t |-> RealRat(RatInt(0))]

\* the interior outvar of spring_mass_solver.py
SpringMassInterior ==
    [ode_x1 |-> RealRat(RatInt(0)), ode_x2 |-> RealRat(RatInt(0)),
     ode_x3 |-> RealRat(RatInt(0))]

\* projectile.py: delta_T = 0.01, t_val = np.arange(0., 5., delta_T)
ProjectileValidationArrays == ProjectileValidation(RatInt(5), Rat(1, 100))

\* projectile.py: validator = PointwiseValidator(..., batch_size=128)
ProjectileValidator ==
    PointwiseValidator(ProjectileValidationArrays.invar,
                       ProjectileValidationArrays.outvar, 128)

\* spring_mass_solver.py: deltaT = 0.001, t = np.arange(0, t_max, deltaT)
SolverValidationArrays == SpringMassData(RatInt(10), Rat(1, 1000))

\* spring_mass_solver.py: validator = PointwiseValidator(..., batch_size=1024)
SolverValidator ==
    PointwiseValidator(SolverValidationArrays.invar,
                       SolverValidationArrays.outvar, 1024)

\* the validators each script adds to its domain, in order
DeclaredValidators(e) ==
    CASE e = "projectile" -> <<ProjectileValidator>>
      [] e = "spring_mass_solver" -> <<SolverValidator>>
      [] e = "spring_mass_inverse" -> <<>>

-----------------------------------------------------------------------------
(* State machine: the run() function of each script, statement group by    *)
(* statement group; the three scripts are independent processes            *)

Range(f) == {f[i] : i \in DOMAIN f}

At(e, here) == pc[e] = here
Goto(e, there) == pc' = [pc EXCEPT ![e] = there]

RunInit ==
    /\ pc = [e \in Examples |-> "start"]
    /\ eqs = [e \in Examples |-> NoEquations]
    /\ nets = [e \in Examples |-> {}]
    /\ invar_numpy = [e \in Examples |-> EmptyDict]
    /\ outvar_numpy = [e \in Examples |-> EmptyDict]
    /\ constraints = [e \in Examples |-> EmptyDict]
    /\ validators = [e \in Examples |-> <<>>]
    /\ inferencers = [e \in Examples |-> EmptyDict]
    /\ monitors = [e \in Examples |-> <<>>]
    /\ solver = [e \in Examples |-> NoSolver]

BuilderIdle ==
    /\ bpc = "idle"
    /\ bk = <<PyInt(2), PyInt(1), PyInt(1), PyInt(2)>>
    /\ bm = <<PyInt(1), PyInt(1), PyInt(1)>>
    /\ bout = NoEquations

GridIdle ==
    /\ gpc = {}
    /\ gstop = RatInt(0)
    /\ gstep = RatInt(1)
    /\ gsets = [e \in Examples |-> EmptyDict]

\* the two notebooks, each with a kernel of its own
Notebooks == {"Getting_Started_Projectile", "Spring_Mass_Problem_Notebook"}

\* the notebook whose cells launch the script of example e
Notebook(e) ==
    IF e = "projectile" THEN "Getting_Started_Projectile"
    ELSE "Spring_Mass_Problem_Notebook"

\* no process started yet from the launch cell
NoProcess ==
    [state |-> "idle", at |-> "none", run |-> 0, env |-> EmptyDict,
     exit |-> "none", steps |-> 0, stderr |-> <<>>]

\* the plot cell has not been executed
NoFigure == [status |-> "none", axes |-> <<>>, saved |-> <<>>, run |-> 0]

NotebookIdle ==
    /\ environ = [nb \in Notebooks |-> EmptyDict]
    /\ cell = [e \in Examples |-> "env"]
    /\ proc = [e \in Examples |-> NoProcess]
    /\ completed = [e \in Examples |-> {}]
    /\ files = EmptyDict
    /\ figure = [e \in Examples |-> NoFigure]
    /\ output = [e \in Examples |-> <<>>]

SamplerIdle ==
    /\ spc = "idle"
    /\ sset = EmptyDict
    /\ spoints = <<>>

Init == RunInit /\ BuilderIdle /\ GridIdle /\ SamplerIdle /\ NotebookIdle

\* domain.add_constraint(c, name)
AddConstraint(e, name, c) ==
    constraints' = [constraints EXCEPT ![e] = DictUpdate(@, name, c)]

\* the five PointwiseBoundaryConstraint calls, by the batch size requested

\* the projectile IC with parameterization = time_range instead of {t: 0.0}
ProjectileICOverRange(batch_size) ==
    BoundaryConstraint(ProjectileIC, batch_size, RatInt(0), RatInt(5))

\* projectile.py IC: parameterization = {t: 0.0}
ProjectileICConstraint(batch_size) ==
    BoundaryConstraint(ProjectileIC, batch_size, RatInt(0), RatInt(0))

\* the projectile interior enforced on (0.0, 4.0) only
ProjectileInteriorShort(batch_size) ==
    BoundaryConstraint(ProjectileInterior, batch_size, RatInt(0), RatInt(4))

\* projectile.py interior: parameterization = time_range = {t: (0.0, 5.0)}
ProjectileInteriorConstraint(batch_size) ==
    BoundaryConstraint(ProjectileInterior, batch_size, RatInt(0), RatInt(5))

\* both spring-mass scripts, IC: parameterization = Parameterization({t_symbol: 0})
SpringMassICConstraint(batch_size) ==
    BoundaryConstraint(SpringMassIC, batch_size, RatInt(0), RatInt(0))

\* spring_mass_solver.py interior: Parameterization({t_symbol: (0, t_max)})
SpringMassInteriorConstraint(batch_size) ==
    BoundaryConstraint(SpringMassInterior, batch_size, RatInt(0), RatInt(10))

---- (* projectile.py *)

\* pe = ProjectileEquation(); projectile_net = instantiate_arch(...); nodes = ...
P_MakeNodes ==
    /\ At("projectile", "start")
    /\ eqs' = [eqs EXCEPT !["projectile"] = MakeNodes(ProjectileEquation, <<>>)]
    /\ nets' = [nets EXCEPT !["projectile"] =
                  {Network("projectile_network", <<"t">>, <<"x", "y">>)}]
    /\ Goto("projectile", "nodes")
    /\ UNCHANGED <<builderVars, gridVars, samplerVars, notebookVars, solver, invar_numpy, outvar_numpy, constraints, validators,
                   inferencers, monitors>>

\* IC = PointwiseBoundaryConstraint(...); projectile_domain.add_constraint(IC, "IC")
P_AddIC ==
    /\ At("projectile", "nodes")
    /\ AddConstraint("projectile", "IC",
          ProjectileICConstraint(cfg.projectile.batch_size.initial_x))
    /\ Goto("projectile", "IC")
    /\ UNCHANGED <<builderVars, gridVars, samplerVars, notebookVars, solver, eqs, nets, invar_numpy, outvar_numpy, validators,
                   inferencers, monitors>>

\* interior = PointwiseBoundaryConstraint(...); add_constraint(interior, "interior")
P_AddInterior ==
    /\ At("projectile", "IC")
    /\ AddConstraint("projectile", "interior",
          ProjectileInteriorConstraint(cfg.projectile.batch_size.interior))
    /\ Goto("projectile", "interior")
    /\ UNCHANGED <<builderVars, gridVars, samplerVars, notebookVars, solver, eqs, nets, invar_numpy, outvar_numpy, validators,
                   inferencers, monitors>>

\* delta_T = 0.01; t_val = np.arange(0., 5., delta_T); ...; add_validator(validator)
P_AddValidator ==
    /\ At("projectile", "interior")
    /\ LET d == ProjectileValidationArrays
       IN  /\ invar_numpy' = [invar_numpy EXCEPT !["projectile"] = d.invar]
           /\ outvar_numpy' = [outvar_numpy EXCEPT !["projectile"] = d.outvar]
           /\ validators' = [validators EXCEPT !["projectile"] =
                               Append(@, ProjectileValidator)]
    /\ Goto("projectile", "validator")
    /\ UNCHANGED <<builderVars, gridVars, samplerVars, notebookVars, solver, eqs, nets, constraints, inferencers, monitors>>

\* t_infe = np.arange(0, 8, 0.001); ...; add_inferencer(grid_inference, "inferencer_data")
P_AddInferencer ==
    /\ At("projectile", "validator")
    /\ LET T_infe == ExpandDims(Arange(RatInt(0), RatInt(8), Rat(1, 1000)))
       IN  inferencers' = [inferencers EXCEPT !["projectile"] =
              DictUpdate(@, "inferencer_data",
                         PointwiseInferencer([t |-> T_infe], <<"x", "y">>, 128))]
    /\ Goto("projectile", "declared")
    /\ UNCHANGED <<builderVars, gridVars, samplerVars, notebookVars, solver, eqs, nets, invar_numpy, outvar_numpy, constraints, validators,
                   monitors>>

---- (* spring_mass_solver.py *)

\* sm = SpringMass(k=(2, 1, 1, 2), m=(1, 1, 1)); sm_net = instantiate_arch(...)
S_MakeNodes ==
    /\ At("spring_mass_solver", "start")
    /\ eqs' = [eqs EXCEPT !["spring_mass_solver"] =
                 MakeNodes(SpringMass(<<PyInt(2), PyInt(1), PyInt(1), PyInt(2)>>,
                                      <<PyInt(1), PyInt(1), PyInt(1)>>), <<>>)]
    /\ nets' = [nets EXCEPT !["spring_mass_solver"] =
                  {Network("spring_mass_network", <<"t">>, <<"x1", "x2", "x3">>)}]
    /\ Goto("spring_mass_solver", "nodes")
    /\ UNCHANGED <<builderVars, gridVars, samplerVars, notebookVars, solver, invar_numpy, outvar_numpy, constraints, validators,
                   inferencers, monitors>>

\* IC = PointwiseBoundaryConstraint(...); domain.add_constraint(IC, name="IC")
S_AddIC ==
    /\ At("spring_mass_solver", "nodes")
    /\ AddConstraint("spring_mass_solver", "IC",
          SpringMassICConstraint(cfg.spring_mass_solver.batch_size.IC))
    /\ Goto("spring_mass_solver", "IC")
    /\ UNCHANGED <<builderVars, gridVars, samplerVars, notebookVars, solver, eqs, nets, invar_numpy, outvar_numpy, validators,
                   inferencers, monitors>>

\* interior = PointwiseBoundaryConstraint(...); domain.add_constraint(interior, "interior")
S_AddInterior ==
    /\ At("spring_mass_solver", "IC")
    /\ AddConstraint("spring_mass_solver", "interior",
          SpringMassInteriorConstraint(cfg.spring_mass_solver.batch_size.interior))
    /\ Goto("spring_mass_solver", "interior")
    /\ UNCHANGED <<builderVars, gridVars, samplerVars, notebookVars, solver, eqs, nets, invar_numpy, outvar_numpy, validators,
                   inferencers, monitors>>

\* deltaT = 0.001; t = np.arange(0, t_max, deltaT); ...; domain.add_validator(validator)
S_AddValidator ==
    /\ At("spring_mass_solver", "interior")
    /\ LET d == SolverValidationArrays
       IN  /\ invar_numpy' = [invar_numpy EXCEPT !["spring_mass_solver"] = d.invar]
           /\ outvar_numpy' = [outvar_numpy EXCEPT !["spring_mass_solver"] = d.outvar]
           /\ validators' = [validators EXCEPT !["spring_mass_solver"] =
                               Append(@, SolverValidator)]
    /\ Goto("spring_mass_solver", "declared")
    /\ UNCHANGED <<builderVars, gridVars, samplerVars, notebookVars, solver, eqs, nets, constraints, inferencers, monitors>>

---- (* spring_mass_inverse.py *)

\* t_max = 10.0; deltaT = 0.01; t = ...; invar_numpy = {...}; outvar_numpy = {...}
I_PrepareData ==
    /\ At("spring_mass_inverse", "start")
    /\ LET d == SpringMassData(RatInt(10), Rat(1, 100))
       IN  /\ invar_numpy' = [invar_numpy EXCEPT !["spring_mass_inverse"] = d.invar]
           /\ outvar_numpy' = [outvar_numpy EXCEPT !["spring_mass_inverse"] = d.outvar]
    /\ Goto("spring_mass_inverse", "data")
    /\ UNCHANGED <<builderVars, gridVars, samplerVars, notebookVars, solver, eqs, nets, constraints, validators, inferencers, monitors>>

\* outvar_numpy.update({"ode_x<n>": np.full_like(invar_numpy["t"], 0)}), n = 1, 2, 3
I_Update ==
    /\ \E n \in 1..3 :
         /\ At("spring_mass_inverse", <<"data", "update1", "update2">>[n])
         /\ outvar_numpy' = [outvar_numpy EXCEPT !["spring_mass_inverse"] =
               DictUpdate(@, <<"ode_x1", "ode_x2", "ode_x3">>[n],
                          FullLike0(invar_numpy["spring_mass_inverse"].t))]
         /\ Goto("spring_mass_inverse", <<"update1", "update2", "update3">>[n])
    /\ UNCHANGED <<builderVars, gridVars, samplerVars, notebookVars, solver, eqs, nets, invar_numpy, constraints, validators, inferencers,
                   monitors>>

\* sm = SpringMass(k=(2, 1, 1, "k4"), m=("m1", 1, 1)); sm_net = ...; invert_net = ...
I_MakeNodes ==
    /\ At("spring_mass_inverse", "update3")
    /\ eqs' = [eqs EXCEPT !["spring_mass_inverse"] =
                 MakeNodes(SpringMass(<<PyInt(2), PyInt(1), PyInt(1), PyStr("k4")>>,
                                      <<PyStr("m1"), PyInt(1), PyInt(1)>>),
                           DetachNames)]
    /\ nets' = [nets EXCEPT !["spring_mass_inverse"] =
                  {Network("spring_mass_network", <<"t">>, <<"x1", "x2", "x3">>),
                   Network("invert_network", <<"t">>, <<"m1", "k4">>)}]
    /\ Goto("spring_mass_inverse", "nodes")
    /\ UNCHANGED <<builderVars, gridVars, samplerVars, notebookVars, solver, invar_numpy, outvar_numpy, constraints, validators,
                   inferencers, monitors>>

\* IC = PointwiseBoundaryConstraint(...); domain.add_constraint(IC, name="IC")
I_AddIC ==
    /\ At("spring_mass_inverse", "nodes")
    /\ AddConstraint("spring_mass_inverse", "IC",
          SpringMassICConstraint(cfg.spring_mass_inverse.batch_size.IC))
    /\ Goto("spring_mass_inverse", "IC")
    /\ UNCHANGED <<builderVars, gridVars, samplerVars, notebookVars, solver, eqs, nets, invar_numpy, outvar_numpy, validators,
                   inferencers, monitors>>

\* data = PointwiseConstraint.from_numpy(...); domain.add_constraint(data, name="Data")
I_AddData ==
    /\ At("spring_mass_inverse", "IC")
    /\ AddConstraint("spring_mass_inverse", "Data",
          FromNumpy(invar_numpy["spring_mass_inverse"],
                    outvar_numpy["spring_mass_inverse"],
                    cfg.spring_mass_inverse.batch_size.data))
    /\ Goto("spring_mass_inverse", "Data")
    /\ UNCHANGED <<builderVars, gridVars, samplerVars, notebookVars, solver, eqs, nets, invar_numpy, outvar_numpy, validators,
                   inferencers, monitors>>

\* monitor = PointwiseMonitor(invar_numpy, output_names=[name], ...); add_monitor(monitor)
I_AddMonitor ==
    /\ \E n \in 1..2 :
         /\ At("spring_mass_inverse", <<"Data", "monitor_m1">>[n])
         /\ monitors' = [monitors EXCEPT !["spring_mass_inverse"] =
               Append(@, PointwiseMonitor(invar_numpy["spring_mass_inverse"],
                                          <<<<"m1">>, <<"k4">>>>[n],
                                          <<"mean_m1", "mean_k4">>[n]))]
         /\ Goto("spring_mass_inverse", <<"monitor_m1", "declared">>[n])
    /\ UNCHANGED <<builderVars, gridVars, samplerVars, notebookVars, solver, eqs, nets, invar_numpy, outvar_numpy, constraints, validators,
                   inferencers>>

---- (* the end of each run() *)

\* what a script has added to its domain so far
Domain(e) ==
    [constraints |-> DOMAIN constraints[e], validators |-> Len(validators[e]),
     inferencers |-> DOMAIN inferencers[e], monitors |-> Len(monitors[e])]

\* the solver training for half the configured number of steps
SolverHalfBudget(config, domain) ==
    [status |-> "solved", constraints |-> domain.constraints,
     validators |-> domain.validators, inferencers |-> domain.inferencers,
     monitors |-> domain.monitors, max_steps |-> config.training.max_steps \div 2]

\* slv = Solver(cfg, domain); slv.solve(): the solver holds the domain as it
\* is at the call and trains on it for cfg.training.max_steps steps
Solver(config, domain) ==
    [status |-> "solved", constraints |-> domain.constraints,
     validators |-> domain.validators, inferencers |-> domain.inferencers,
     monitors |-> domain.monitors, max_steps |-> config.training.max_steps]

\* the solver made and started right after the nodes, before anything is
\* added to the domain
SolveBeforeDeclaring ==
    /\ \E e \in Examples :
         /\ At(e, "nodes")
         /\ solver' = [solver EXCEPT ![e] = Solver(cfg[e], Domain(e))]
         /\ Goto(e, "solved")
    /\ UNCHANGED <<builderVars, gridVars, samplerVars, notebookVars, eqs, nets,
                   invar_numpy, outvar_numpy, constraints, validators,
                   inferencers, monitors>>

\* the last two statements of each run(): slv = Solver(cfg, domain); slv.solve()
Solve ==
    /\ \E e \in Examples :
         /\ At(e, "declared")
         /\ solver' = [solver EXCEPT ![e] = Solver(cfg[e], Domain(e))]
         /\ Goto(e, "solved")
    /\ UNCHANGED <<builderVars, gridVars, samplerVars, notebookVars, eqs, nets,
                   invar_numpy, outvar_numpy, constraints, validators,
                   inferencers, monitors>>

Next ==
    \/ P_MakeNodes \/ P_AddIC \/ P_AddInterior \/ P_AddValidator \/ P_AddInferencer
    \/ S_MakeNodes \/ S_AddIC \/ S_AddInterior \/ S_AddValidator
    \/ I_PrepareData \/ I_Update \/ I_MakeNodes \/ I_AddIC \/ I_AddData
    \/ I_AddMonitor
    \/ Solve

Spec == Init /\ [][Next]_vars

-----------------------------------------------------------------------------
(* SpringMass(k, m) called with arbitrary coefficient values *)

\* values a caller can pass for one coefficient
CoefficientValues ==
    {PyInt(1), PyInt(2), PyFloat(Rat(3, 2)), PyStr("m1"), PyStr("k4"),
     PyNone, PySymbol("c")}

BuilderInit ==
    /\ RunInit /\ GridIdle /\ SamplerIdle /\ NotebookIdle
    /\ bpc = "call"
    /\ bk \in [1..4 -> CoefficientValues]
    /\ bm \in [1..3 -> CoefficientValues]
    /\ bout = NoEquations

\* sm = SpringMass(k=bk, m=bm): returns the object or propagates the exception
Construct ==
    /\ bpc = "call"
    /\ bout' = SpringMass(bk, bm)
    /\ bpc' = IF bout'.status = "ok" THEN "returned" ELSE "raised"
    /\ UNCHANGED <<bk, bm, runVars, gridVars, samplerVars, notebookVars>>

BuilderNext == Construct

BuilderSpec == BuilderInit /\ [][BuilderNext]_vars

-----------------------------------------------------------------------------
(* The array-backed sets built on an arbitrary grid np.arange(0, stop, step) *)

MaxStop == 3
MaxStepNum == 2
MaxStepDen == 3

\* the grids of the scripts: (5, 0.01), (10, 0.001), (10, 0.01)
ScriptGrids ==
    {<<RatInt(5), Rat(1, 100)>>, <<RatInt(10), Rat(1, 1000)>>,
     <<RatInt(10), Rat(1, 100)>>}

Grids ==
    ScriptGrids \cup
    {<<RatInt(n), Rat(a, b)>> : n \in 1..MaxStop,
                                a \in 1..MaxStepNum, b \in 1..MaxStepDen }

GridInit ==
    /\ RunInit /\ BuilderIdle /\ SamplerIdle /\ NotebookIdle
    /\ gpc = {}
    /\ \E g \in Grids : gstop = g[1] /\ gstep = g[2]
    /\ gsets = [e \in Examples |-> EmptyDict]

\* the three update calls of spring_mass_inverse.py applied to outvar_numpy
WithResiduals(d) ==
    [invar |-> d.invar,
     outvar |-> DictUpdate(DictUpdate(DictUpdate(d.outvar,
                    "ode_x1", FullLike0(d.invar.t)),
                    "ode_x2", FullLike0(d.invar.t)),
                    "ode_x3", FullLike0(d.invar.t))]

\* the projectile validator's arrays on the grid
G_Projectile ==
    /\ "projectile" \notin gpc
    /\ gsets' = [gsets EXCEPT !["projectile"] = ProjectileValidation(gstop, gstep)]
    /\ gpc' = gpc \cup {"projectile"}
    /\ UNCHANGED <<gstop, gstep, runVars, builderVars, samplerVars, notebookVars>>

\* the spring-mass validator's arrays on the grid
G_Solver ==
    /\ "spring_mass_solver" \notin gpc
    /\ gsets' = [gsets EXCEPT !["spring_mass_solver"] = SpringMassData(gstop, gstep)]
    /\ gpc' = gpc \cup {"spring_mass_solver"}
    /\ UNCHANGED <<gstop, gstep, runVars, builderVars, samplerVars, notebookVars>>

\* the spring-mass inverse data set's arrays on the grid
G_Inverse ==
    /\ "spring_mass_inverse" \notin gpc
    /\ gsets' = [gsets EXCEPT !["spring_mass_inverse"] =
                   WithResiduals(SpringMassData(gstop, gstep))]
    /\ gpc' = gpc \cup {"spring_mass_inverse"}
    /\ UNCHANGED <<gstop, gstep, runVars, builderVars, samplerVars, notebookVars>>

GridNext == G_Projectile \/ G_Solver \/ G_Inverse

GridSpec == GridInit /\ [][GridNext]_vars

-----------------------------------------------------------------------------
(* Sampling a PointwiseBoundaryConstraint: batch_size points of the geometry *)
(* geo = Point1D(0), each with a value of t taken from the parameterization  *)

MaxBatch == 4
Resolution == 2

\* geo = Point1D(0): the only point of the geometry
geo == [x |-> RatInt(0)]

\* the values of t a parameterization (lo, hi) allows, on Resolution intervals;
\* a parameterization pinned to a value has lo = hi
Points(range) ==
    {RatAdd(range[1], RatMul(Rat(j, Resolution), RatSub(range[2], range[1]))) :
        j \in 0..Resolution}

\* the batch sizes of the configurations and the small ones
BatchSizes ==
    (1..MaxBatch) \cup
    {cfg[e].batch_size[b] : <<e, b>> \in {<<"projectile", "initial_x">>,
         <<"projectile", "interior">>, <<"spring_mass_solver", "IC">>,
         <<"spring_mass_solver", "interior">>, <<"spring_mass_inverse", "IC">>}}

\* the boundary sample sets of the three scripts, at any requested batch size
SampleSets ==
    UNION {{ProjectileICConstraint(b), ProjectileInteriorConstraint(b),
            SpringMassICConstraint(b), SpringMassInteriorConstraint(b)} :
           b \in BatchSizes}

SamplerInit ==
    /\ RunInit /\ BuilderIdle /\ GridIdle /\ NotebookIdle
    /\ spc = "request"
    /\ sset \in SampleSets
    /\ spoints = <<>>

\* the constraint draws its batch: batch_size rows, whose distinct inputs are
\* any non-empty set of at most batch_size admissible points
SampleBoundary ==
    /\ spc = "request"
    /\ \E ts \in (SUBSET Points(sset.parameterization.t)) \ {{}} :
          /\ Cardinality(ts) <= sset.batch_size
          /\ spoints' = [rows |-> sset.batch_size,
                         distinct |-> {[x |-> geo.x, t |-> v] : v \in ts}]
    /\ spc' = "sampled"
    /\ UNCHANGED <<sset, runVars, builderVars, gridVars, notebookVars>>

SamplerNext == SampleBoundary

SamplerSpec == SamplerInit /\ [][SamplerNext]_vars

-----------------------------------------------------------------------------
(* The run sections of the two notebooks: the cell that sets the           *)
(* environment, the cell that launches the training script and waits for   *)
(* it, and the cell that plots the validator's result bundle               *)

MaxLaunches == 3

\* the examples whose section has a plot cell
Plotters == {"projectile", "spring_mass_solver"}

\* the directory of a notebook, the working directory of its kernel
Cwd(nb) ==
    IF nb = "Getting_Started_Projectile"
    THEN <<"jupyter_notebook", "projectile">>
    ELSE <<"jupyter_notebook", "spring_mass">>

\* the file a relative path names in directory dir
RECURSIVE Resolve(_, _)
Resolve(dir, path) ==
    IF path = <<>> THEN dir
    ELSE IF Head(path) = "." THEN Resolve(dir, Tail(path))
    ELSE IF Head(path) = ".." THEN Resolve(SubSeq(dir, 1, Len(dir) - 1), Tail(path))
    ELSE Resolve(Append(dir, Head(path)), Tail(path))

\* the environment cell writing WORLD_SIZE for two processes
SetEnvironTwoProcesses(env) ==
    DictUpdate(DictUpdate(DictUpdate(env, "RANK", "0"), "WORLD_SIZE", "2"),
               "MASTER_ADDR", "localhost")

\* os.environ["RANK"]="0"; os.environ["WORLD_SIZE"]="1"; os.environ["MASTER_ADDR"]="localhost"
SetEnviron(env) ==
    DictUpdate(DictUpdate(DictUpdate(env, "RANK", "0"), "WORLD_SIZE", "1"),
               "MASTER_ADDR", "localhost")

\* !python3 ../../source_code/<directory>/<script>.py
LaunchCommand(e) ==
    <<"..", "..", "source_code",
      IF e = "projectile" THEN "projectile" ELSE "spring_mass", e \o ".py">>

\* the kernel of notebook nb is waiting for a script it launched
Busy(nb) == \E e \in Examples : Notebook(e) = nb /\ proc[e].state = "running"

\* the launches made so far
Launches ==
    proc["projectile"].run + proc["spring_mass_solver"].run
      + proc["spring_mass_inverse"].run

---- (* the result bundle a run leaves *)

\* the bundle written below a directory named after the run
BundlePathPerRun(e, run) ==
    <<"outputs", e, "validators", <<"run1", "run2", "run3", "run4">>[run],
      "validator.npz">>

\* the bundle of example e, relative to the working directory of the run
BundlePath(e, run) == <<"outputs", e, "validators", "validator.npz">>

\* the arrays of a validator's bundle: its inputs, and for each target v the
\* true array true_<v> and the network's prediction pred_<v> on the inputs
ValidatorBundle(v) ==
    LET ins == DOMAIN v.invar
        outs == DOMAIN v.true_outvar
    IN  [key \in ins \cup {"true_" \o k : k \in outs} \cup {"pred_" \o k : k \in outs} |->
            IF key \in ins THEN v.invar[key]
            ELSE IF \E k \in outs : key = "true_" \o k
                 THEN v.true_outvar[CHOOSE k \in outs : key = "true_" \o k]
                 ELSE Elementwise("pred", v.invar.t)]

\* the files after run number run of script e has saved its validators' results
WriteBundles(e, run, fs) ==
    IF DeclaredValidators(e) = <<>> THEN fs
    ELSE DictUpdate(fs, Resolve(Cwd(Notebook(e)), BundlePath(e, run)),
                    [arr_0 |-> ValidatorBundle(DeclaredValidators(e)[1]),
                     run |-> run])

---- (* the plot cells *)

\* both plot cells loading from the directory named in the projectile notebook
PlotPathOfProjectile(e) ==
    <<".", "outputs", "projectile", "validators", "validator.npz">>

\* network_dir + "validator.npz" / base_dir + "validator.npz"
PlotPath(e) ==
    IF e = "projectile"
    THEN <<".", "outputs", "projectile", "validators", "validator.npz">>
    ELSE <<"outputs", "spring_mass_solver", "validators", "validator.npz">>

\* the plot cells with the last pair of curves a copy of the first pair
PlotCommandsRepeated(e) ==
    IF e = "projectile"
    THEN <<[axes |-> 1, x |-> "t", y |-> "pred_x"],
           [axes |-> 1, x |-> "t", y |-> "true_x"],
           [axes |-> 2, x |-> "t", y |-> "pred_x"],
           [axes |-> 2, x |-> "t", y |-> "true_x"]>>
    ELSE <<[axes |-> 1, x |-> "t", y |-> "true_x1"],
           [axes |-> 1, x |-> "t", y |-> "true_x2"],
           [axes |-> 1, x |-> "t", y |-> "true_x1"],
           [axes |-> 1, x |-> "t", y |-> "pred_x1"],
           [axes |-> 1, x |-> "t", y |-> "pred_x2"],
           [axes |-> 1, x |-> "t", y |-> "pred_x1"]>>

\* the plot cells with the plt.subplot calls left out: every curve on one axes
PlotCommandsWithoutSubplot(e) ==
    IF e = "projectile"
    THEN <<[axes |-> 1, x |-> "t", y |-> "pred_x"],
           [axes |-> 1, x |-> "t", y |-> "true_x"],
           [axes |-> 1, x |-> "t", y |-> "pred_y"],
           [axes |-> 1, x |-> "t", y |-> "true_y"]>>
    ELSE <<[axes |-> 1, x |-> "t", y |-> "true_x1"],
           [axes |-> 1, x |-> "t", y |-> "true_x2"],
           [axes |-> 1, x |-> "t", y |-> "true_x3"],
           [axes |-> 1, x |-> "t", y |-> "pred_x1"],
           [axes |-> 1, x |-> "t", y |-> "pred_x2"],
           [axes |-> 1, x |-> "t", y |-> "pred_x3"]>>

\* the plt.plot calls of the plot cell, each with the axes it draws on:
\* plt.subplot(1, 2, n) selects axes n, without plt.subplot there is one axes
PlotCommands(e) ==
    IF e = "projectile"
    THEN <<[axes |-> 1, x |-> "t", y |-> "pred_x"],
           [axes |-> 1, x |-> "t", y |-> "true_x"],
           [axes |-> 2, x |-> "t", y |-> "pred_y"],
           [axes |-> 2, x |-> "t", y |-> "true_y"]>>
    ELSE <<[axes |-> 1, x |-> "t", y |-> "true_x1"],
           [axes |-> 1, x |-> "t", y |-> "true_x2"],
           [axes |-> 1, x |-> "t", y |-> "true_x3"],
           [axes |-> 1, x |-> "t", y |-> "pred_x1"],
           [axes |-> 1, x |-> "t", y |-> "pred_x2"],
           [axes |-> 1, x |-> "t", y |-> "pred_x3"]>>

\* plt.savefig("prediction") / plt.savefig('comparison_spring_mass.png')
SaveFig(e) ==
    IF e = "projectile" THEN "prediction.png" ELSE "comparison_spring_mass.png"

\* np.load returning an empty archive for a path that does not exist
NpLoadLenient(fs, path) ==
    IF path \in DOMAIN fs THEN [status |-> "ok", data |-> fs[path]]
    ELSE [status |-> "ok", data |-> [arr_0 |-> EmptyDict, run |-> 0]]

\* np.load(path, allow_pickle=True)
NpLoad(fs, path) ==
    IF path \in DOMAIN fs THEN [status |-> "ok", data |-> fs[path]]
    ELSE [status |-> "FileNotFoundError", data |-> [arr_0 |-> EmptyDict, run |-> 0]]

Max(S) == CHOOSE x \in S : \A y \in S : y <= x
Min(S) == CHOOSE x \in S : \A y \in S : x <= y

\* the axes of the figure after the plot commands cmds, each the set of its
\* curves <<x key, y key>>
AxesOf(cmds) ==
    [a \in 1..Max({0} \cup {cmds[i].axes : i \in DOMAIN cmds}) |->
        {<<cmds[i].x, cmds[i].y>> : i \in {j \in DOMAIN cmds : cmds[j].axes = a}}]

\* the plot cell of example e executed on the files fs: the load, the plot
\* commands up to the first key the bundle lacks, then savefig
Plot(e, fs) ==
    LET loaded == NpLoad(fs, Resolve(Cwd(Notebook(e)), PlotPath(e)))
        data == loaded.data.arr_0
        cmds == PlotCommands(e)
        bad == {i \in DOMAIN cmds : ~({cmds[i].x, cmds[i].y} \subseteq DOMAIN data)}
        done == IF bad = {} THEN cmds ELSE SubSeq(cmds, 1, Min(bad) - 1)
    IN  IF loaded.status # "ok"
        THEN [status |-> loaded.status, axes |-> <<>>, saved |-> <<>>, run |-> 0]
        ELSE [status |-> IF bad = {} THEN "rendered" ELSE "KeyError",
              axes |-> AxesOf(done),
              saved |-> IF bad = {} THEN <<SaveFig(e)>> ELSE <<>>,
              run |-> loaded.data.run]

---- (* the process of a training script *)

\* the external packages the scripts import
Packages == {"numpy", "sympy", "torch", "physicsnemo"}

\* the external packages script e imports, in the order of its import statements
Imports(e) ==
    CASE e = "projectile" -> <<"numpy", "sympy", "torch", "physicsnemo">>
      [] e = "spring_mass_solver" -> <<"numpy", "sympy", "physicsnemo">>
      [] e = "spring_mass_inverse" -> <<"torch", "numpy", "sympy", "physicsnemo">>

\* what python3 can find installed when a script starts: everything, everything
\* but numpy (the recorded run), nothing
Sites == {Packages, Packages \ {"numpy"}, {}}

\* what the interpreter prints when the import of module fails in script e
Traceback(e, module) ==
    <<"Traceback (most recent call last):",
      "  File \"" \o LaunchCommand(e)[Len(LaunchCommand(e))] \o "\", in <module>",
      "ModuleNotFoundError: No module named '" \o module \o "'">>

\* a failed import answered by starting the script again
ImportErrorRetried(p, e, module) ==
    [p EXCEPT !.run = @ + 1, !.at = "import"]

\* the process p of script e after the import of module raised: nothing
\* catches the exception, the interpreter prints the traceback and exits
ImportError(p, e, module) ==
    [p EXCEPT !.state = "idle", !.at = "none", !.exit = "ModuleNotFoundError",
              !.stderr = Traceback(e, module)]

\* what the launch cell shows of process p: the ! escape passes the
\* script's output through
Shown(p) == p.stderr

---- (* the cells *)

\* what os.environ holds when the kernels start
InheritedEnvironments ==
    {EmptyDict,
     DictUpdate(EmptyDict, "WORLD_SIZE", "4"),
     DictUpdate(DictUpdate(DictUpdate(EmptyDict, "RANK", "1"), "WORLD_SIZE", "2"),
                "MASTER_ADDR", "node0")}

NotebookInit ==
    /\ RunInit /\ BuilderIdle /\ GridIdle /\ SamplerIdle
    /\ \E env \in InheritedEnvironments : environ = [nb \in Notebooks |-> env]
    /\ cell = [e \in Examples |-> "env"]
    /\ proc = [e \in Examples |-> NoProcess]
    /\ completed = [e \in Examples |-> {}]
    /\ files = EmptyDict
    /\ figure = [e \in Examples |-> NoFigure]
    /\ output = [e \in Examples |-> <<>>]

\* the cell with the three os.environ assignments, in the section of example e
EnvCell ==
    /\ \E e \in Examples :
         /\ cell[e] = "env" /\ ~Busy(Notebook(e))
         /\ environ' = [environ EXCEPT ![Notebook(e)] = SetEnviron(@)]
         /\ cell' = [cell EXCEPT ![e] = "launch"]
    /\ UNCHANGED <<proc, completed, files, figure, output, runVars, builderVars,
                   gridVars, samplerVars>>

\* the cell !python3 <script>: its output area is cleared, the script starts
\* at its first statement with a copy of os.environ and the kernel waits for it
LaunchCell ==
    /\ \E e \in Examples :
         /\ cell[e] = "launch" /\ ~Busy(Notebook(e))
         /\ Launches < MaxLaunches
         /\ proc' = [proc EXCEPT ![e] =
               [state |-> "running", at |-> "import", run |-> @.run + 1,
                env |-> environ[Notebook(e)], exit |-> "none", steps |-> 0,
                stderr |-> <<>>]]
         /\ output' = [output EXCEPT ![e] = <<>>]
         /\ cell' = [cell EXCEPT ![e] = "wait"]
    /\ UNCHANGED <<environ, completed, files, figure, runVars, builderVars,
                   gridVars, samplerVars>>

\* the import statements with a failed import removing the result bundle of
\* the example
ScriptImportsClearingOutputs ==
    /\ \E e \in Examples : \E site \in Sites :
         /\ proc[e].state = "running" /\ proc[e].at = "import"
         /\ LET absent == {i \in DOMAIN Imports(e) : Imports(e)[i] \notin site}
            IN  IF absent = {}
                THEN /\ proc' = [proc EXCEPT ![e].at = "run"]
                     /\ UNCHANGED <<cell, output, files>>
                ELSE /\ proc' = [proc EXCEPT ![e] =
                           ImportError(@, e, Imports(e)[Min(absent)])]
                     /\ output' = [output EXCEPT ![e] = Shown(proc'[e])]
                     /\ cell' = [cell EXCEPT ![e] = "env"]
                     /\ files' = [p \in DOMAIN files \
                                       {Resolve(Cwd(Notebook(e)), BundlePath(e, 1))} |->
                                    files[p]]
    /\ UNCHANGED <<environ, completed, figure, runVars, builderVars,
                   gridVars, samplerVars>>

\* the import statements at the head of the script, executed in the Python
\* installation found at that moment: all succeed and the script goes on to
\* run(), or the first one whose package is absent raises and the interpreter
\* exits with the traceback, which the cell shows
ScriptImports ==
    /\ \E e \in Examples : \E site \in Sites :
         /\ proc[e].state = "running" /\ proc[e].at = "import"
         /\ LET absent == {i \in DOMAIN Imports(e) : Imports(e)[i] \notin site}
            IN  IF absent = {}
                THEN /\ proc' = [proc EXCEPT ![e].at = "run"]
                     /\ UNCHANGED <<cell, output>>
                ELSE /\ proc' = [proc EXCEPT ![e] =
                           ImportError(@, e, Imports(e)[Min(absent)])]
                     /\ output' = [output EXCEPT ![e] = Shown(proc'[e])]
                     /\ cell' = [cell EXCEPT ![e] = "env"]
    /\ UNCHANGED <<environ, completed, files, figure, runVars, builderVars,
                   gridVars, samplerVars>>

\* run() to its end: the declarations, slv = Solver(cfg, domain) and
\* slv.solve(), which trains for the configured max_steps and leaves the
\* validators' results; then the interpreter exits
ScriptExits ==
    /\ \E e \in Examples :
         /\ proc[e].state = "running" /\ proc[e].at = "run"
         /\ proc' = [proc EXCEPT ![e].state = "idle", ![e].at = "none",
                                 ![e].exit = "ok",
                                 ![e].steps = cfg[e].training.max_steps]
         /\ files' = WriteBundles(e, proc[e].run, files)
         /\ completed' = [completed EXCEPT ![e] = @ \cup {proc[e].run}]
         /\ output' = [output EXCEPT ![e] = Shown(proc'[e])]
         /\ cell' = [cell EXCEPT ![e] = "env"]
    /\ UNCHANGED <<environ, figure, runVars, builderVars, gridVars, samplerVars>>

\* the plot cell of example e, executed whenever its kernel is idle; savefig
\* writes the figure into the working directory of the kernel
PlotCell ==
    /\ \E e \in Plotters :
         /\ ~Busy(Notebook(e))
         /\ figure' = [figure EXCEPT ![e] = Plot(e, files)]
         /\ files' = IF figure'[e].saved = <<>> THEN files
                     ELSE DictUpdate(files,
                              Resolve(Cwd(Notebook(e)), figure'[e].saved),
                              [png |-> figure'[e].axes, run |-> figure'[e].run])
    /\ UNCHANGED <<environ, cell, proc, completed, output, runVars,
                   builderVars, gridVars, samplerVars>>

NotebookNext == EnvCell \/ LaunchCell \/ ScriptImports \/ ScriptExits \/ PlotCell

NotebookSpec == NotebookInit /\ [][NotebookNext]_vars

-----------------------------------------------------------------------------
(* Properties of the equation builder *)

Labels(e) == DOMAIN eqs[e].equations

\* the converted coefficient at an occurrence o = <<label, term>> of equations eq
CoefficientAt(eq, o) == eq[o[1]][o[2]].c

\* the arguments some of which match neither the str nor the float/int branch
Unmatched(k, m) ==
    {name \in DOMAIN Passed(k, m) :
        Passed(k, m)[name].ty \notin {"str", "float", "int"}}

\* C1: after SpringMass(k, m) returns, each of the seven coefficients, taken
\* on its own, enters every residual place it occupies as a numeric constant
\* of the passed value when the argument is an int or a float, and as an
\* unknown function of t of the passed name when it is a str; a Number never
\* stems from a str and a Function never from a number.
C1_CoefficientKinds ==
    bpc = "returned" =>
        \A name \in DOMAIN Occurrences : \A o \in Occurrences[name] :
            LET v == Passed(bk, bm)[name]
                c == CoefficientAt(bout.equations, o)
            IN  /\ v.ty \in {"int", "float"} =>
                     c.kind = "Number" /\ c.n = v.n
                /\ v.ty = "str" => c.kind = "Function" /\ c.s = v.s
                /\ c.kind = "Number" => v.ty \in {"int", "float"}
                /\ c.kind = "Function" => v.ty = "str"

\* a returned call mixing a str, an int and a float coefficient
C1_Witness ==
    /\ bpc = "returned"
    /\ bk[4].ty = "str" /\ bk[1].ty = "int" /\ bm[1].ty = "float"
    /\ CoefficientAt(bout.equations, <<"ode_x3", 3>>).kind = "Function"

\* C4 (as claimed): a call with a coefficient that is neither numeric nor a
\* str ends in an error and produces no equations mapping.
C4_UnmatchedCoefficientRaises ==
    (bpc # "call" /\ Unmatched(bk, bm) # {}) =>
        (bpc = "raised" /\ DOMAIN bout.equations = {})

-----------------------------------------------------------------------------
(* Substituting the closed-form solution into the residuals *)

RECURSIVE RatSum(_)
RatSum(q) == IF q = <<>> THEN RatInt(0) ELSE RatAdd(Head(q), RatSum(Tail(q)))

\* d/dt applied d times (d even) to cos(w*t) is this factor times cos(w*t)
DiffFactor(d, w2) == IF d = 0 THEN RatInt(1) ELSE RatInt(-w2)

\* the coefficient of harmonic h in residual R once each unknown f is replaced
\* by the harmonic sum sol[f]; coefficients are numeric
HarmonicCoefficient(R, sol, h) ==
    RatSum([j \in DOMAIN R |->
        RatMul(RatMul(RatInt(R[j].sgn), R[j].c.n),
               RatSum([u \in DOMAIN R[j].arg |->
                   RatMul(RatInt(R[j].arg[u].sgn),
                          RatMul(DiffFactor(R[j].arg[u].d, sol[R[j].arg[u].f][h].w2),
                                 sol[R[j].arg[u].f][h].a))]))])

\* the validator's ground truth of row i, per unknown
TruthAt(v, i) ==
    [x1 |-> Item(v.true_outvar.x1, i), x2 |-> Item(v.true_outvar.x2, i),
     x3 |-> Item(v.true_outvar.x3, i)]

\* the amplitudes and squared frequencies of a harmonic sum, without the time
Spectrum(x) == [h \in DOMAIN x |-> <<x[h].a, x[h].w2>>]

\* C2: with SpringMass(k=(2,1,1,2), m=(1,1,1)) and the validator's closed-form
\* solution, the three unknowns are sums of cosines of squared frequency 1, 3,
\* 4 evaluated at the row's grid point with the same amplitudes at every
\* validation row, and the coefficient of each of the three cosines in each of
\* ode_x1, ode_x2, ode_x3 after substitution is 0.
C2_ClosedFormSolvesResiduals ==
    pc["spring_mass_solver"] = "declared" =>
        LET v == validators["spring_mass_solver"][1]
            first == TruthAt(v, 1)
        IN  /\ DOMAIN v.true_outvar = {"x1", "x2", "x3"}
            /\ \A i \in 1..v.invar.t.n :
                  LET sol == TruthAt(v, i)
                      t == Item(v.invar.t, i)
                  IN  \A f \in {"x1", "x2", "x3"} :
                        /\ Spectrum(sol[f]) = Spectrum(first[f])
                        /\ \A h \in 1..3 : sol[f][h].t = t
            /\ \A h \in 1..3 :
                  /\ \A f \in {"x1", "x2", "x3"} : first[f][h].w2 = <<1, 3, 4>>[h]
                  /\ \A l \in Labels("spring_mass_solver") :
                        HarmonicCoefficient(
                            eqs["spring_mass_solver"].equations[l], first, h)
                          = RatInt(0)

\* the validator is declared on its 10000 rows and the equations are built
C2_Witness ==
    /\ pc["spring_mass_solver"] = "declared"
    /\ validators["spring_mass_solver"][1].invar.t.n = 10000
    /\ Labels("spring_mass_solver") = {"ode_x1", "ode_x2", "ode_x3"}

\* C3: once both scripts built their equations, the inverse residuals equal
\* the forward ones term by term except for exactly two coefficients: m1 in
\* ode_x1 (term 1) is the unknown function m1(t) instead of the constant 1 and
\* k4 in ode_x3 (term 3) is the unknown function k4(t) instead of the constant
\* 2; ode_x2 is identical.
C3_InverseDiffersInM1AndK4 ==
    (eqs["spring_mass_solver"].status = "ok"
        /\ eqs["spring_mass_inverse"].status = "ok") =>
        LET fw == eqs["spring_mass_solver"].equations
            inv == eqs["spring_mass_inverse"].equations
            places == {<<l, j>> : l \in DOMAIN fw, j \in 1..3}
            differ == {o \in places : inv[o[1]][o[2]] # fw[o[1]][o[2]]}
        IN  /\ DOMAIN inv = DOMAIN fw
            /\ \A l \in DOMAIN fw : Len(inv[l]) = 3 /\ Len(fw[l]) = 3
            /\ differ = {<<"ode_x1", 1>>, <<"ode_x3", 3>>}
            /\ inv["ode_x2"] = fw["ode_x2"]
            /\ \A o \in differ :
                  /\ [inv[o[1]][o[2]] EXCEPT !.c = 0] = [fw[o[1]][o[2]] EXCEPT !.c = 0]
                  /\ CoefficientAt(inv, o).kind = "Function"
                  /\ CoefficientAt(fw, o).kind = "Number"
            /\ CoefficientAt(inv, <<"ode_x1", 1>>).s = "m1"
            /\ CoefficientAt(fw, <<"ode_x1", 1>>).n = RatInt(1)
            /\ CoefficientAt(inv, <<"ode_x3", 3>>).s = "k4"
            /\ CoefficientAt(fw, <<"ode_x3", 3>>).n = RatInt(2)

\* both constructors have run
C3_Witness ==
    /\ eqs["spring_mass_solver"].status = "ok"
    /\ eqs["spring_mass_inverse"].status = "ok"
    /\ pc["spring_mass_inverse"] = "nodes"

-----------------------------------------------------------------------------
(* Properties of the declared sample sets *)

Zero == RealRat(RatInt(0))

\* the output keys of the networks of example e
Outputs(e) == UNION {Range(n.output_keys) : n \in nets[e]}

\* the constraints of example e that have been added to its domain
Added(e) == {constraints[e][name] : name \in DOMAIN constraints[e]}

\* every row of array a holds v
Constant(a, v) == \A i \in 1..a.n : Item(a, i) = v

\* the target of residual l in constraint c is the number z (on every row, for
\* an array target)
TargetIs(c, l, z) ==
    IF c.kind = "PointwiseConstraint"
    THEN z.s = RatInt(0) /\ Constant(c.outvar[l], z.r)
    ELSE c.outvar[l] = z

NamesUsed(e) ==
    UNION ({DOMAIN c.outvar : c \in Added(e)}
           \cup {DOMAIN v.true_outvar : v \in Range(validators[e])}
           \cup {Range(inferencers[e][n].output_names) : n \in DOMAIN inferencers[e]}
           \cup {Range(m.output_names) : m \in Range(monitors[e])})

\* C6 (as claimed): every name used as a target key or requested output name
\* is one of the equation keys ode_x, ode_y, ode_x1, ode_x2, ode_x3 or one of
\* the network output keys x, y, x1, x2, x3, m1, k4.
C6_NamesAreResidualsOrOutputs ==
    \A e \in Examples :
        NamesUsed(e) \subseteq
            {"ode_x", "ode_y", "ode_x1", "ode_x2", "ode_x3"}
            \cup {"x", "y", "x1", "x2", "x3", "m1", "k4"}

\* C6 (amended): for every sample set, validator, inferencer and monitor of an
\* example, every target key or requested output name is a key of that
\* example's equations, an output key of one of that example's networks, or
\* the first time derivative <v>__t of such an output key v (the targets of
\* the initial-condition sets).
C6_NamesAreResidualsOutputsOrDerivatives ==
    \A e \in Examples :
        NamesUsed(e) \subseteq
            Labels(e) \cup Outputs(e) \cup {v \o "__t" : v \in Outputs(e)}

\* every script has declared everything, the IC sets with their derivative keys
C6_Witness ==
    /\ \A e \in Examples : pc[e] = "declared"
    /\ "x1__t" \in NamesUsed("spring_mass_inverse")
    /\ "k4" \in NamesUsed("spring_mass_inverse")
    /\ "y" \in NamesUsed("projectile")

\* C7: whatever the grid range and step, in the projectile validator, the
\* spring-mass validator and the inverse data set every target array has the
\* shape, hence the row count, of every input array of the set, and at
\* least one row; in the inverse set the three ode_x arrays are among the
\* targets.
C7_RowCountsAgree ==
    \A e \in gpc :
        /\ \A a \in DOMAIN gsets[e].invar : \A b \in DOMAIN gsets[e].outvar :
              /\ Shape(gsets[e].outvar[b]) = Shape(gsets[e].invar[a])
              /\ Shape(gsets[e].outvar[b])[1] >= 1
        /\ e = "spring_mass_inverse" =>
              {"ode_x1", "ode_x2", "ode_x3"} \subseteq DOMAIN gsets[e].outvar

\* all three sets built on a grid whose step does not divide the range
C7_Witness ==
    /\ gpc = Examples
    /\ gstop = RatInt(3) /\ gstep = Rat(2, 3)
    /\ Shape(gsets["spring_mass_inverse"].outvar["ode_x3"]) = <<5, 1>>
    /\ Shape(gsets["projectile"].outvar["y"]) = <<5, 1>>

\* C8: the Data constraint of the inverse script has the single input t, the
\* grid 0, 0.01, ... of 1000 rows; its targets are exactly x1, x2, x3,
\* ode_x1, ode_x2, ode_x3; on every row x1, x2, x3 are the closed-form
\* solution at that row's t and ode_x1, ode_x2, ode_x3 are 0.
C8_DataAssimilationSet ==
    "Data" \in DOMAIN constraints["spring_mass_inverse"] =>
        LET c == constraints["spring_mass_inverse"]["Data"]
        IN  /\ DOMAIN c.invar = {"t"}
            /\ DOMAIN c.outvar = {"x1", "x2", "x3", "ode_x1", "ode_x2", "ode_x3"}
            /\ \A b \in DOMAIN c.outvar : Shape(c.outvar[b]) = Shape(c.invar.t)
            /\ c.invar.t.n = 1000
            /\ \A i \in 1..c.invar.t.n :
                  LET t == Item(c.invar.t, i)
                  IN  /\ t = Rat(i - 1, 100)
                      /\ \A b \in {"ode_x1", "ode_x2", "ode_x3"} :
                            Item(c.outvar[b], i) = RatInt(0)
                      /\ c.outvar.x1.f = "X1" /\ Item(c.outvar.x1, i) = X1(t)
                      /\ c.outvar.x2.f = "X2" /\ Item(c.outvar.x2, i) = X2(t)
                      /\ c.outvar.x3.f = "X3" /\ Item(c.outvar.x3, i) = X3(t)

\* the Data constraint has been added with its 1000 rows
C8_Witness ==
    /\ pc["spring_mass_inverse"] = "Data"
    /\ "Data" \in DOMAIN constraints["spring_mass_inverse"]
    /\ constraints["spring_mass_inverse"]["Data"].outvar.ode_x2.n = 1000

\* C9: the projectile validator's input is the 500 points t = (i-1)/100,
\* i = 1..500 (so 5 is not among them), and on each row the stored targets are
\* x = 40*(1/2)*t and y = 40*(sqrt(3)/2)*t - 4.905*t^2.
C9_ProjectileValidatorArrays ==
    pc["projectile"] \in {"validator", "declared"} =>
        LET v == validators["projectile"][1]
        IN  /\ DOMAIN v.invar = {"t"} /\ DOMAIN v.true_outvar = {"x", "y"}
            /\ Shape(v.invar.t) = <<500, 1>>
            /\ Shape(v.true_outvar.x) = <<500, 1>>
            /\ Shape(v.true_outvar.y) = <<500, 1>>
            /\ \A i \in 1..500 :
                  /\ Item(v.invar.t, i) = Rat(i - 1, 100)
                  /\ RatLess(Item(v.invar.t, i), RatInt(5))
                  /\ Item(v.true_outvar.x, i)
                       = Real(Rat(40 * (i - 1), 2 * 100), RatInt(0))
                  /\ Item(v.true_outvar.y, i)
                       = Real(Rat(-4905 * (i - 1) * (i - 1), 10000000),
                              Rat(40 * (i - 1), 2 * 100))

\* the validator has been added; its last row is t = 4.99
C9_Witness ==
    /\ pc["projectile"] = "validator"
    /\ Len(validators["projectile"]) = 1
    /\ Item(validators["projectile"][1].invar.t, 500) = Rat(499, 100)

\* C10: from the preparation of the inverse data on, through the three update
\* calls and the later statements, the input grid and the x1, x2, x3 targets
\* held by run() stay the arrays the preparation computed, and on every row
\* the closed-form solution re-evaluated at the stored grid point equals the
\* stored x1, x2, x3.
C10_RoundTrip ==
    pc["spring_mass_inverse"] # "start" =>
        LET in == invar_numpy["spring_mass_inverse"]
            out == outvar_numpy["spring_mass_inverse"]
        IN  /\ DOMAIN in = {"t"}
            /\ {"x1", "x2", "x3"} \subseteq DOMAIN out
            /\ in.t = ExpandDims(Arange(RatInt(0), RatInt(10), Rat(1, 100)))
            /\ out.x1.f = "X1" /\ out.x2.f = "X2" /\ out.x3.f = "X3"
            /\ \A b \in {"x1", "x2", "x3"} : Shape(out[b]) = Shape(in.t)
            /\ \A i \in 1..in.t.n :
                  LET t == Item(in.t, i)
                  IN  /\ Item(out.x1, i) = X1(t)
                      /\ Item(out.x2, i) = X2(t)
                      /\ Item(out.x3, i) = X3(t)

\* the three update calls have run
C10_Witness ==
    /\ pc["spring_mass_inverse"] = "update3"
    /\ DOMAIN outvar_numpy["spring_mass_inverse"]
         = {"x1", "x2", "x3", "ode_x1", "ode_x2", "ode_x3"}

-----------------------------------------------------------------------------
(* Properties of the boundary sample sets *)

\* the sample set is one of the three initial-condition sets
IsIC(c) == \E b \in BatchSizes : c \in {ProjectileICConstraint(b), SpringMassICConstraint(b)}

\* C11: once an initial-condition sample set (projectile, spring-mass forward
\* or inverse) has drawn its batch, whatever the batch size requested, its
\* rows hold exactly one distinct input, the one with t = 0.
C11_ICSetHasOnePoint ==
    (spc = "sampled" /\ IsIC(sset)) =>
        /\ spoints.rows = sset.batch_size
        /\ Cardinality(spoints.distinct) = 1
        /\ \A p \in spoints.distinct : p.t = RatInt(0)

\* the projectile IC set drawn with the configured 100 rows
C11_Witness ==
    /\ spc = "sampled"
    /\ sset = ProjectileICConstraint(cfg.projectile.batch_size.initial_x)
    /\ spoints.rows = 100
    /\ spoints.distinct = {[x |-> RatInt(0), t |-> RatInt(0)]}

-----------------------------------------------------------------------------
(* Properties of the validation and inference grids *)

\* array a is the grid 0, step, 2*step, ... of the given row count, with
\* rows*step = t_max, consecutive rows step apart and every row below t_max
UniformGrid(a, t_max, rows) ==
    LET step == RatDiv(t_max, RatInt(rows))
    IN  /\ a.f = "grid" /\ Shape(a) = <<rows, 1>>
        /\ Item(a, 1) = RatInt(0)
        /\ \A i \in 1..a.n :
              LET t == Item(a, i)
              IN  /\ RatLess(t, t_max)
                  /\ i < a.n => Item(a, i + 1) = RatAdd(t, step)

\* every target of validator v is a closed-form expression evaluated on the
\* validator's own input grid
TruthIsClosedForm(v, formulas) ==
    \A b \in DOMAIN v.true_outvar :
        /\ b \in DOMAIN formulas
        /\ v.true_outvar[b] = Elementwise(formulas[b], v.invar.t)

\* C13: the projectile validator's input is the uniform grid of 500 rows on
\* [0, 5), the projectile inferencer's the grid of 8000 rows on [0, 8), the
\* spring-mass validator's the grid of 10000 rows on [0, 10) and the inverse
\* data set's the grid of 1000 rows on [0, 10): each starts at 0, advances by
\* t_max/rows and stays below t_max; both validators' targets are the
\* closed-form expressions evaluated on the validator's grid.
C13_UniformGrids ==
    /\ pc["projectile"] \in {"validator", "declared"} =>
          LET v == validators["projectile"][1]
          IN  /\ UniformGrid(v.invar.t, RatInt(5), 500)
              /\ TruthIsClosedForm(v, [x |-> "X_val", y |-> "Y_val"])
    /\ pc["projectile"] = "declared" =>
          UniformGrid(inferencers["projectile"]["inferencer_data"].invar.t,
                      RatInt(8), 8000)
    /\ pc["spring_mass_solver"] = "declared" =>
          LET v == validators["spring_mass_solver"][1]
          IN  /\ UniformGrid(v.invar.t, RatInt(10), 10000)
              /\ TruthIsClosedForm(v, [x1 |-> "X1", x2 |-> "X2", x3 |-> "X3"])
    /\ "Data" \in DOMAIN constraints["spring_mass_inverse"] =>
          UniformGrid(constraints["spring_mass_inverse"]["Data"].invar.t,
                      RatInt(10), 1000)

\* all four grids exist; the inferencer's last row is t = 7.999
C13_Witness ==
    /\ pc["projectile"] = "declared"
    /\ pc["spring_mass_solver"] = "declared"
    /\ "Data" \in DOMAIN constraints["spring_mass_inverse"]
    /\ Item(inferencers["projectile"]["inferencer_data"].invar.t, 8000)
         = Rat(7999, 1000)
    /\ Item(validators["spring_mass_solver"][1].invar.t, 10000) = Rat(9999, 1000)

-----------------------------------------------------------------------------
(* Properties of the run sections *)

\* the file the plot cell of example e loads
BundleFile(e) == Resolve(Cwd(Notebook(e)), PlotPath(e))

BundleExists(e) == BundleFile(e) \in DOMAIN files

\* the stage of example e: its script is running; else its bundle exists and
\* the figure last plotted shows it; else its bundle exists; else neither
Lifecycle(e) ==
    IF proc[e].state = "running" THEN "running"
    ELSE IF ~BundleExists(e) THEN "not-yet-run"
    ELSE IF figure[e].status = "rendered" /\ figure[e].run = files[BundleFile(e)].run
         THEN "plotted"
         ELSE "artifact-available"

\* what a plot cell leaves when np.load finds no file: the error, no axes
\* drawn, nothing saved
MissingArtifact ==
    [status |-> "FileNotFoundError", axes |-> <<>>, saved |-> <<>>, run |-> 0]

DependentVariables(e) ==
    {v \in DOMAIN DeclaredValidators(e)[1].true_outvar :
        {"pred_" \o v, "true_" \o v} \subseteq DOMAIN files[BundleFile(e)].arr_0}

\* the predicted and the true curve of variable v against t
Curves(v) == {<<"t", "pred_" \o v>>, <<"t", "true_" \o v>>}

\* C15 (as claimed): a figure rendered from the bundle has as many subplots as
\* the bundle has dependent variables (2 for projectile, 3 for spring-mass),
\* and each variable has a subplot showing exactly its predicted and its true
\* curve against t.
C15_OneSubplotPerVariable ==
    \A e \in Plotters :
        figure[e].status = "rendered" =>
            /\ Len(figure[e].axes) = Cardinality(DependentVariables(e))
            /\ \A v \in DependentVariables(e) :
                  \E a \in DOMAIN figure[e].axes : figure[e].axes[a] = Curves(v)

\* C15 (amended): a figure rendered from the bundle shows, for every
\* dependent variable of the bundle, its predicted and its true curve against
\* t and no other curve; the projectile figure has one subplot per variable
\* (2: x, y), the spring-mass figure draws its six curves (x1, x2, x3) on a
\* single axes.
C15_CurvesPerVariable ==
    \A e \in Plotters :
        figure[e].status = "rendered" =>
            /\ UNION Range(figure[e].axes) = UNION {Curves(v) : v \in DependentVariables(e)}
            /\ e = "projectile" =>
                  /\ DependentVariables(e) = {"x", "y"}
                  /\ Len(figure[e].axes) = 2
                  /\ \A v \in DependentVariables(e) :
                        \E a \in DOMAIN figure[e].axes : figure[e].axes[a] = Curves(v)
            /\ e = "spring_mass_solver" =>
                  /\ DependentVariables(e) = {"x1", "x2", "x3"}
                  /\ Len(figure[e].axes) = 1

\* both figures rendered: two subplots for projectile, one axes with six
\* curves for spring-mass
C15_Witness ==
    /\ figure["projectile"].status = "rendered"
    /\ Len(figure["projectile"].axes) = 2
    /\ figure["spring_mass_solver"].status = "rendered"
    /\ Cardinality(figure["spring_mass_solver"].axes[1]) = 6

\* the validator bundles found below outputs/<e> of the notebook's directory
BundlesOf(e) ==
    {p \in DOMAIN files :
        /\ Len(p) > Len(Cwd(Notebook(e))) + 2
        /\ SubSeq(p, 1, Len(Cwd(Notebook(e)))) = Cwd(Notebook(e))
        /\ p[Len(Cwd(Notebook(e))) + 1] = "outputs"
        /\ p[Len(Cwd(Notebook(e))) + 2] = e
        /\ p[Len(p)] = "validator.npz"}

\* C16: at any time, an example whose script declares a validator (projectile,
\* spring-mass forward) and has completed at least one run has exactly one
\* bundle, at outputs/<example>/validators/validator.npz below the notebook's
\* directory whatever the number of the run, which is the file the plot cell
\* loads and holds the arrays of the latest completed run; before the first
\* completed run, and for the inverse example, which declares no validator,
\* there is no bundle.
C16_OneBundleAtFixedPath ==
    \A e \in Examples :
        IF e \in Plotters /\ completed[e] # {}
        THEN /\ BundlesOf(e) =
                  {Cwd(Notebook(e)) \o <<"outputs", e, "validators", "validator.npz">>}
             /\ BundlesOf(e) = {BundleFile(e)}
             /\ files[BundleFile(e)].run = Max(completed[e])
             /\ files[BundleFile(e)].arr_0 = ValidatorBundle(DeclaredValidators(e)[1])
        ELSE BundlesOf(e) = {}

\* the projectile script has completed two runs; the inverse script one
C16_Witness ==
    /\ completed["projectile"] = {1, 2}
    /\ completed["spring_mass_inverse"] = {1}
    /\ files[BundleFile("projectile")].run = 2
    /\ Cardinality(DOMAIN files) = 1

\* the keys the plot cell of example e reads from the loaded bundle
KeysRead(e) ==
    UNION {{PlotCommands(e)[i].x, PlotCommands(e)[i].y} : i \in DOMAIN PlotCommands(e)}

\* C17: whenever the bundle of an example exists, the keys its plot cell
\* reads (t, pred_x, true_x, pred_y, true_y for projectile; t, true_x1,
\* true_x2, true_x3, pred_x1, pred_x2, pred_x3 for spring-mass) are exactly
\* the validator's input key t and pred_<v>, true_<v> for each key v of the
\* validator's true-output mapping; each is an array of the bundle, and each
\* of these arrays has the row count of the validator's grid (500, 10000).
C17_KeysReadMatchValidator ==
    \A e \in Plotters :
        BundleExists(e) =>
            LET v == DeclaredValidators(e)[1]
                arrays == files[BundleFile(e)].arr_0
            IN  /\ KeysRead(e) =
                     DOMAIN v.invar
                       \cup {"pred_" \o k : k \in DOMAIN v.true_outvar}
                       \cup {"true_" \o k : k \in DOMAIN v.true_outvar}
                /\ KeysRead(e) =
                     IF e = "projectile"
                     THEN {"t", "pred_x", "true_x", "pred_y", "true_y"}
                     ELSE {"t", "true_x1", "true_x2", "true_x3",
                           "pred_x1", "pred_x2", "pred_x3"}
                /\ KeysRead(e) \subseteq DOMAIN arrays
                /\ \A k \in KeysRead(e) \cap DOMAIN arrays :
                      /\ Shape(arrays[k])[1] = Shape(v.invar.t)[1]
                      /\ Shape(arrays[k])[1] = IF e = "projectile" THEN 500 ELSE 10000

\* both bundles exist and both plot cells have read them
C17_Witness ==
    /\ BundleExists("projectile") /\ BundleExists("spring_mass_solver")
    /\ figure["projectile"].status = "rendered"
    /\ figure["spring_mass_solver"].status = "rendered"
    /\ Shape(files[BundleFile("spring_mass_solver")].arr_0["pred_x3"]) = <<10000, 1>>

-----------------------------------------------------------------------------
(* Properties of the configurations *)

\* C18: in each of the three configurations every batch size (initial_x,
\* interior, IC, data), max_steps and every rec_*_freq value is an integer
\* greater than 0; and for every constraint a script has added, the key it
\* reads as cfg.batch_size.<key> is declared in that script's configuration
\* and the constraint carries the declared value.
C18_ConfigurationValues ==
    \A e \in Examples :
        /\ \A b \in DOMAIN cfg[e].batch_size :
              cfg[e].batch_size[b] \in Int /\ cfg[e].batch_size[b] > 0
        /\ "max_steps" \in DOMAIN cfg[e].training
        /\ \A k \in DOMAIN cfg[e].training :
              cfg[e].training[k] \in Int /\ cfg[e].training[k] > 0
        /\ \A name \in DOMAIN constraints[e] :
              /\ BatchSizeReference(e, name) \in DOMAIN cfg[e].batch_size
              /\ constraints[e][name].batch_size
                   = cfg[e].batch_size[BatchSizeReference(e, name)]

\* every constraint of the three scripts has been added with its batch size
C18_Witness ==
    /\ DOMAIN constraints["projectile"] = {"IC", "interior"}
    /\ DOMAIN constraints["spring_mass_solver"] = {"IC", "interior"}
    /\ DOMAIN constraints["spring_mass_inverse"] = {"IC", "Data"}
    /\ constraints["spring_mass_inverse"]["Data"].batch_size = 1000
    /\ constraints["projectile"]["IC"].batch_size = 100

-----------------------------------------------------------------------------
(* Properties relating the residuals to the networks *)

\* the unknown functions of the residuals eq: those differentiated or
\* subtracted in a term and those standing as a coefficient
FunctionsIn(eq) ==
    UNION {UNION {{eq[l][j].arg[u].f : u \in DOMAIN eq[l][j].arg}
                    \cup (IF eq[l][j].c.kind = "Function" THEN {eq[l][j].c.s} ELSE {}) :
                  j \in DOMAIN eq[l]} : l \in DOMAIN eq}

Inputs(e) == UNION {Range(n.input_keys) : n \in nets[e]}

\* C19: once a script has built its equations and networks, every unknown
\* function of the residuals and the independent variable t is an input or
\* output key of one of its networks; the names are t, x, y for projectile,
\* t, x1, x2, x3 for spring-mass forward and t, x1, x2, x3, m1, k4 for the
\* inverse, where m1 and k4 are output keys of invert_network.
C19_ResidualNamesAreNetworkKeys ==
    \A e \in Examples :
        eqs[e].status = "ok" =>
            LET names == FunctionsIn(eqs[e].equations) \cup {IndependentVariable}
            IN  /\ names \subseteq Inputs(e) \cup Outputs(e)
                /\ names = CASE e = "projectile" -> {"t", "x", "y"}
                             [] e = "spring_mass_solver" -> {"t", "x1", "x2", "x3"}
                             [] e = "spring_mass_inverse" ->
                                  {"t", "x1", "x2", "x3", "m1", "k4"}
                /\ e = "spring_mass_inverse" =>
                      \E n \in nets[e] :
                          /\ n.name = "invert_network"
                          /\ {"m1", "k4"} \subseteq Range(n.output_keys)

\* the three scripts have built their equations and networks
C19_Witness ==
    /\ \A e \in Examples : eqs[e].status = "ok" /\ nets[e] # {}
    /\ "m1" \in FunctionsIn(eqs["spring_mass_inverse"].equations)
    /\ "k4" \in Outputs("spring_mass_inverse")

-----------------------------------------------------------------------------
(* Properties of the environment of the training scripts *)

\* the environment names single-process execution
SingleProcess(env) ==
    /\ {"RANK", "WORLD_SIZE", "MASTER_ADDR"} \subseteq DOMAIN env
    /\ env["RANK"] = "0"
    /\ env["WORLD_SIZE"] = "1"
    /\ env["MASTER_ADDR"] = "localhost"

\* C20: whatever the kernels inherited and in whatever order the cells of the
\* three run sections are executed (each section's environment cell before
\* its launch cell), whenever a section is about to launch its script the
\* kernel's environment has RANK=0, WORLD_SIZE=1, MASTER_ADDR=localhost, and
\* every script that has been launched started with these three values.
C20_EnvironmentAtLaunch ==
    \A e \in Examples :
        /\ cell[e] = "launch" => SingleProcess(environ[Notebook(e)])
        /\ proc[e].run >= 1 => SingleProcess(proc[e].env)

\* all three scripts have been launched, the inverse one before the forward
\* one, from kernels that inherited the values of a two-process launch
C20_Witness ==
    /\ \A e \in Examples : proc[e].run = 1
    /\ proc["spring_mass_inverse"].state = "idle"
    /\ proc["spring_mass_solver"].state = "running"
    /\ cell["projectile"] = "wait"
    /\ SingleProcess(proc["spring_mass_solver"].env)

-----------------------------------------------------------------------------
(* Properties of a run that stops at an import *)

\* the run of script e ended with the exception of a failed import
Aborted(e) == proc[e].state = "idle" /\ proc[e].exit = "ModuleNotFoundError"

\* C21: in every step of the notebooks and for every example: a run that ends
\* with ModuleNotFoundError ends at the import statements, with no training
\* step made and no run completed; the launch cell shows the interpreter's
\* traceback, naming the absent package, as the process printed it; a run
\* number is only ever incremented by the launch cell, one at a time and from
\* an idle process; and an aborted process stays as it is, without a training
\* step, until the launch cell is executed again.
C21_NoTrainingNoRetry ==
    [][\A e \in Examples :
          /\ (proc[e].state = "running" /\ Aborted(e)') =>
                /\ proc[e].at = "import"
                /\ proc'[e].steps = 0
                /\ completed' = completed
                /\ \E m \in Packages : proc'[e].stderr = Traceback(e, m)
                /\ output'[e] = proc'[e].stderr
          /\ proc'[e].run # proc[e].run =>
                /\ cell[e] = "launch" /\ cell'[e] = "wait"
                /\ proc[e].state = "idle"
                /\ proc'[e].run = proc[e].run + 1
          /\ (Aborted(e) /\ proc'[e] # proc[e]) =>
                /\ cell[e] = "launch" /\ cell'[e] = "wait"
                /\ proc'[e].run = proc[e].run + 1
          /\ Aborted(e)' => proc'[e].steps = 0 /\ output'[e] = proc'[e].stderr]_vars

\* the projectile run stopped at import numpy, as recorded in the notebook, and
\* was launched a second time by the user; the inverse run stopped at import
\* torch
C21_Witness ==
    /\ proc["projectile"].run = 2 /\ proc["projectile"].at = "import"
    /\ Aborted("spring_mass_inverse")
    /\ output["spring_mass_inverse"] = Traceback("spring_mass_inverse", "torch")
    /\ proc["spring_mass_inverse"].steps = 0
    /\ completed["projectile"] = {} /\ completed["spring_mass_inverse"] = {}

-----------------------------------------------------------------------------
(* Properties of the order of the statements of run() *)

\* run() of example e holds input or target arrays
HoldsArrays(e) == DOMAIN invar_numpy[e] # {} \/ DOMAIN outvar_numpy[e] # {}

\* the domain of example e has a sample set
HasSampleSets(e) ==
    \/ Domain(e).constraints # {} \/ Domain(e).validators > 0
    \/ Domain(e).inferencers # {} \/ Domain(e).monitors > 0

\* the equations and the networks of example e are defined
NodesDefined(e) == eqs[e].status = "ok" /\ nets[e] # {}

\* everything run() of example e adds to its domain
Declarations(e) ==
    CASE e = "projectile" ->
           [constraints |-> {"IC", "interior"}, validators |-> 1,
            inferencers |-> {"inferencer_data"}, monitors |-> 0]
      [] e = "spring_mass_solver" ->
           [constraints |-> {"IC", "interior"}, validators |-> 1,
            inferencers |-> {}, monitors |-> 0]
      [] e = "spring_mass_inverse" ->
           [constraints |-> {"IC", "Data"}, validators |-> 0,
            inferencers |-> {}, monitors |-> 2]

\* the solver of example e was started on everything run() declares, and the
\* domain has not changed since
TrainedOnAll(e) ==
    /\ [k \in DOMAIN Domain(e) |-> solver[e][k]] = Domain(e)
    /\ Domain(e) = Declarations(e)
    /\ solver[e].max_steps = cfg[e].training.max_steps

-----------------------------------------------------------------------------
(* Properties of the files of the three examples *)

\* the output directory of example e below the directory of its notebook
OutputDirectory(e) == Cwd(Notebook(e)) \o <<"outputs", e>>

\* path p lies below directory dir
Below(p, dir) == Len(p) > Len(dir) /\ SubSeq(p, 1, Len(dir)) = dir

\* the file the plot cell of example e saves
PlotFile(e) == Resolve(Cwd(Notebook(e)), <<SaveFig(e)>>)

\* the files of example e: what lies below its output directory and the
\* figure its plot cell saved
Artifacts(e) ==
    {p \in DOMAIN files : Below(p, OutputDirectory(e))}
      \cup (IF e \in Plotters THEN {PlotFile(e)} \cap DOMAIN files ELSE {})

-----------------------------------------------------------------------------
(* Properties of the inverse problem *)

\* the name of f differentiated d times with respect to t
RECURSIVE DerivativeName(_, _)
DerivativeName(f, d) == IF d = 0 THEN f ELSE DerivativeName(f, d - 1) \o "__t"

\* the names the residuals eq are computed from: every unknown function as
\* differentiated in a term, and every unknown standing as a coefficient
NamesIn(eq) ==
    UNION {UNION {{DerivativeName(eq[l][j].arg[u].f, eq[l][j].arg[u].d) :
                      u \in DOMAIN eq[l][j].arg}
                    \cup (IF eq[l][j].c.kind = "Function" THEN {eq[l][j].c.s} ELSE {}) :
                  j \in DOMAIN eq[l]} : l \in DOMAIN eq}

\* C24: once the inverse script has made its nodes, every name its three
\* residuals are computed from other than m1 and k4 (x1, x2, x3 and their
\* second derivatives) is in detach_names, which lists x1, x2, x3 with their
\* first and second time derivatives and nothing else; m1 and k4 appear in the
\* residuals, are not detached, and are exactly the output keys of
\* invert_network; the other two scripts detach nothing.
C24_OnlyM1AndK4Optimized ==
    \A e \in Examples :
        eqs[e].status = "ok" =>
            LET names == NamesIn(eqs[e].equations)
                detached == Range(eqs[e].detach_names)
            IN  IF e = "spring_mass_inverse"
                THEN /\ names \ {"m1", "k4"} \subseteq detached
                     /\ {"m1", "k4"} \subseteq names
                     /\ {"m1", "k4"} \cap detached = {}
                     /\ detached = {DerivativeName(x, d) :
                                      x \in {"x1", "x2", "x3"}, d \in 0..2}
                     /\ \E n \in nets[e] :
                           /\ n.name = "invert_network"
                           /\ Range(n.output_keys) = names \ detached
                ELSE detached = {}

\* the inverse script has made its nodes: the accelerations and m1, k4 are
\* among the names of its residuals
C24_Witness ==
    /\ eqs["spring_mass_inverse"].status = "ok"
    /\ pc["spring_mass_inverse"] = "nodes"
    /\ {"x1__t__t", "x3", "m1", "k4"} \subseteq
          NamesIn(eqs["spring_mass_inverse"].equations)
    /\ Len(eqs["spring_mass_inverse"].detach_names) = 9


\* the closed-form solution the inverse script assimilates, as harmonic sums
AssimilatedSolution ==
    [x1 |-> X1(RatInt(0)), x2 |-> X2(RatInt(0)), x3 |-> X3(RatInt(0))]

\* residual l of the equations eq is identically zero on the assimilated
\* solution: the coefficient of each of cos(t), cos(sqrt(3)*t), cos(2*t) is 0
VanishesOnData(eq, l) ==
    \A h \in 1..3 : HarmonicCoefficient(eq[l], AssimilatedSolution, h) = RatInt(0)

\* the call SpringMass(k=(2, 1, 1, k4), m=(m1, 1, 1)) with numbers for m1, k4
ConstantM1AndK4 ==
    /\ <<bk[1], bk[2], bk[3]>> = <<PyInt(2), PyInt(1), PyInt(1)>>
    /\ <<bm[2], bm[3]>> = <<PyInt(1), PyInt(1)>>
    /\ bk[4].ty \in {"int", "float"} /\ bm[1].ty \in {"int", "float"}

\* C25: for every call SpringMass(k=(2, 1, 1, k4), m=(m1, 1, 1)) with numeric
\* constants m1 and k4 that returns, with x1, x2, x3 the closed-form solution
\* of the data: ode_x2 is identically zero whatever m1 and k4; ode_x1 is
\* identically zero exactly when m1 = 1 and ode_x3 exactly when k4 = 2, so both
\* are identically zero if and only if m1 = 1 and k4 = 2.
C25_DataMadeWithM1AndK4 ==
    (bpc = "returned" /\ ConstantM1AndK4) =>
        /\ VanishesOnData(bout.equations, "ode_x2")
        /\ VanishesOnData(bout.equations, "ode_x1") <=> bm[1].n = RatInt(1)
        /\ VanishesOnData(bout.equations, "ode_x3") <=> bk[4].n = RatInt(2)
        /\ (VanishesOnData(bout.equations, "ode_x1")
              /\ VanishesOnData(bout.equations, "ode_x3"))
             <=> (bm[1].n = RatInt(1) /\ bk[4].n = RatInt(2))

\* the call with m1 = 1 and k4 = 2 has returned and its three residuals vanish
\* on the data
C25_Witness ==
    /\ bpc = "returned" /\ ConstantM1AndK4
    /\ bm[1] = PyInt(1) /\ bk[4] = PyInt(2)
    /\ \A l \in {"ode_x1", "ode_x2", "ode_x3"} : VanishesOnData(bout.equations, l)

-----------------------------------------------------------------------------
(* Properties relating the initial conditions to the closed-form solutions *)

\* the closed-form arrays of example e: the validator's targets, or for the
\* inverse script the x1, x2, x3 targets of its Data constraint
Truth(e) ==
    IF e = "spring_mass_inverse"
    THEN [b \in {"x1", "x2", "x3"} |-> constraints[e]["Data"].outvar[b]]
    ELSE validators[e][1].true_outvar

TruthDeclared(e) ==
    IF e = "spring_mass_inverse" THEN "Data" \in DOMAIN constraints[e]
    ELSE Len(validators[e]) >= 1

\* the generating expression of array a evaluated at -h, 0 and h
Probe(a, h) == [a EXCEPT !.start = RatNeg(h), !.step = h, !.n = 3]

\* the value at t = 0 of the expression of a: a projectile expression is a
\* number r + s*sqrt(3); a sum of a*cos(w*t) is the sum of its amplitudes
ValueAtZero(a) ==
    LET z == Item(Probe(a, RatInt(1)), 2)
    IN  IF a.f \in {"X_val", "Y_val"} THEN z
        ELSE RealRat(RatSum([h \in DOMAIN z |-> z[h].a]))

\* the first derivative at t = 0 of the expression of a: for a projectile
\* expression, of degree at most 2 in t, the central difference over [-h, h];
\* for a sum of a*cos(w*t) the sum of -a*w*sin(w*0), each term 0
SlopeAtZero(a, h) ==
    IF a.f \in {"X_val", "Y_val"}
    THEN RealScale(RatDiv(RatInt(1), RatMul(RatInt(2), h)),
                   RealSub(Item(Probe(a, h), 3), Item(Probe(a, h), 1)))
    ELSE LET z == Item(Probe(a, h), 2)
         IN  RealRat(RatSum([k \in DOMAIN z |-> RatMul(z[k].a, RatInt(0))]))

\* C26: in every example, once the initial-condition set and the closed-form
\* arrays are declared, the first row of the closed-form grid is t = 0 and,
\* for each dependent variable v, the IC target v is the closed-form
\* expression at t = 0 and the IC target v__t is its first derivative at
\* t = 0 (whatever the width of the difference); the IC has no other target;
\* the values are x = 0, y = 0, x__t = 40*cos(pi/3) = 20,
\* y__t = 40*sin(pi/3) = 20*sqrt(3) for projectile and x1 = 1, x2 = x3 = 0,
\* x1__t = x2__t = x3__t = 0 for both spring-mass scripts.
C26_ICAgreesWithClosedForm ==
    \A e \in Examples :
        ("IC" \in DOMAIN constraints[e] /\ TruthDeclared(e)) =>
            LET ic == constraints[e]["IC"].outvar
                truth == Truth(e)
            IN  /\ DOMAIN ic = DOMAIN truth \cup {v \o "__t" : v \in DOMAIN truth}
                /\ \A v \in DOMAIN truth :
                      /\ GridPoint(truth[v], 1) = RatInt(0)
                      /\ ic[v] = ValueAtZero(truth[v])
                      /\ \A h \in {RatInt(1), Rat(1, 2), Rat(1, 10)} :
                            ic[v \o "__t"] = SlopeAtZero(truth[v], h)
                /\ ic = IF e = "projectile"
                        THEN [x |-> Zero, y |-> Zero,
                              x__t |-> Real(RatInt(20), RatInt(0)),
                              y__t |-> Real(RatInt(0), RatInt(20))]
                        ELSE [x1 |-> RealRat(RatInt(1)), x2 |-> Zero, x3 |-> Zero,
                              x1__t |-> Zero, x2__t |-> Zero, x3__t |-> Zero]

\* the three IC sets and the three closed-form solutions are declared
C26_Witness ==
    /\ \A e \in Examples : "IC" \in DOMAIN constraints[e] /\ TruthDeclared(e)
    /\ ValueAtZero(Truth("spring_mass_inverse")["x1"]) = RealRat(RatInt(1))
    /\ SlopeAtZero(Truth("projectile")["y"], Rat(1, 2)) = Real(RatInt(0), RatInt(20))


\* the second derivative of the projectile expression of array a, of degree at
\* most 2 in t: the second difference over [-h, h]
SecondDerivative(a, h) ==
    LET p == Probe(a, h)
    IN  RealScale(RatDiv(RatInt(1), RatMul(h, h)),
                  RealSub(RealSub(Item(p, 3), Item(p, 2)),
                          RealSub(Item(p, 2), Item(p, 1))))

\* residual R, a single term c * (d/dt)^2 f, on the closed-form arrays truth
ResidualOnTruth(R, truth, h) ==
    RealScale(RatMul(RatInt(R[1].sgn * R[1].arg[1].sgn), R[1].c.n),
              SecondDerivative(truth[R[1].arg[1].f], h))

\* C27: once the projectile script has added its interior constraint and its
\* validator, each residual of ProjectileEquation is the second time
\* derivative of one unknown, and evaluated on the validator's closed-form
\* solution it equals the target the interior constraint declares for it:
\* x'' = 0 = ode_x and y'' = -9.81 = ode_y, which is twice the coefficient
\* -0.5*9.81 of t^2 in Y_val.
C27_ClosedFormMeetsInterior ==
    ("interior" \in DOMAIN constraints["projectile"]
        /\ Len(validators["projectile"]) >= 1) =>
        LET eq == eqs["projectile"].equations
            target == constraints["projectile"]["interior"].outvar
            truth == validators["projectile"][1].true_outvar
        IN  /\ DOMAIN target = DOMAIN eq
            /\ \A l \in DOMAIN eq :
                  /\ Len(eq[l]) = 1 /\ Len(eq[l][1].arg) = 1
                  /\ eq[l][1].arg[1].d = 2
                  /\ eq[l][1].arg[1].f \in DOMAIN truth
                  /\ \A h \in {RatInt(1), Rat(1, 2), Rat(1, 10)} :
                        ResidualOnTruth(eq[l], truth, h) = target[l]
            /\ eq["ode_x"][1].arg[1].f = "x" /\ eq["ode_y"][1].arg[1].f = "y"
            /\ target["ode_x"] = Zero
            /\ target["ode_y"] = RealRat(Rat(-981, 100))
            /\ target["ode_y"] = RealRat(RatMul(RatInt(2), RatNeg(g_half)))

\* the projectile script has declared its interior constraint and validator;
\* the second derivative of the stored y expression is -9.81
C27_Witness ==
    /\ "interior" \in DOMAIN constraints["projectile"]
    /\ pc["projectile"] = "validator"
    /\ SecondDerivative(validators["projectile"][1].true_outvar["y"], RatInt(1))
         = RealRat(Rat(-981, 100))

-----------------------------------------------------------------------------
(* Properties relating the grids to the enforced time interval *)

\* t lies in the closed interval range = <<lo, hi>>
Inside(t, range) == ~RatLess(t, range[1]) /\ ~RatLess(range[2], t)

\* every row of the grid array a lies in range
GridInside(a, range) == \A i \in 1..a.n : Inside(Item(a, i), range)

\* C28: once the three scripts have declared everything: every input of the
\* projectile validator lies in the interval (0, 5) its interior constraint
\* is enforced on, every input of the spring-mass validator lies in the
\* interval (0, 10) of its interior constraint, and every input of the inverse
\* data set lies in [0, 10], end points included in each case; the projectile
\* inferencer grid is the only one with rows outside: its rows up to t = 5 lie
\* inside and all later rows (t = 5.001 to 7.999) have t > 5.
C28_ValidationInsideEnforcedInterval ==
    (\A e \in Examples : pc[e] \in {"declared", "solved"}) =>
        LET pr == constraints["projectile"]["interior"].parameterization.t
            sr == constraints["spring_mass_solver"]["interior"].parameterization.t
            infer == inferencers["projectile"]["inferencer_data"].invar.t
        IN  /\ pr = <<RatInt(0), RatInt(5)>> /\ sr = <<RatInt(0), RatInt(10)>>
            /\ GridInside(validators["projectile"][1].invar.t, pr)
            /\ GridInside(validators["spring_mass_solver"][1].invar.t, sr)
            /\ GridInside(constraints["spring_mass_inverse"]["Data"].invar.t,
                          <<RatInt(0), RatInt(10)>>)
            /\ \A i \in 1..infer.n :
                  /\ Inside(Item(infer, i), pr) <=> i <= 5001
                  /\ ~Inside(Item(infer, i), pr) => RatLess(pr[2], Item(infer, i))
            /\ infer.n = 8000

\* everything is declared; the inferencer's row 5002 is the first outside
C28_Witness ==
    /\ \A e \in Examples : pc[e] = "declared"
    /\ Item(inferencers["projectile"]["inferencer_data"].invar.t, 5002)
         = Rat(5001, 1000)
    /\ Item(validators["projectile"][1].invar.t, 500) = Rat(499, 100)

-----------------------------------------------------------------------------
(* Properties of the record frequencies *)

\* the rec_*_freq keys of the training section of example e
Frequencies(e) == DOMAIN cfg[e].training \ {"max_steps"}

\* the last step at or below budget that is a multiple of freq
LastRecord(freq, budget) == (budget \div freq) * freq

\* C29 (as claimed): for every script that has started its solver, every
\* record frequency of its configuration is at most the number of steps the
\* solver trains for and divides it.
C29_FrequenciesDivideBudget ==
    \A e \in Examples :
        solver[e].status = "solved" =>
            \A k \in Frequencies(e) :
                /\ cfg[e].training[k] <= solver[e].max_steps
                /\ solver[e].max_steps % cfg[e].training[k] = 0

\* C29 (amended): for every script that has started its solver, the solver
\* trains for the configured max_steps (5000, 10000, 10000) and every record
\* frequency is at most max_steps, so each kind of record is made at least
\* once; every frequency divides max_steps, so that the last record is made
\* at the final step, except rec_constraint_freq = 2000 of projectile, which
\* leaves a remainder of 1000 and whose last record is made at step 4000; the
\* frequencies of the validation results (rec_validation_freq of projectile,
\* rec_results_freq of spring-mass) are 1000 and divide max_steps.
C29_RecordFrequencies ==
    \A e \in Examples :
        solver[e].status = "solved" =>
            LET budget == solver[e].max_steps
                odd == IF e = "projectile" THEN {"rec_constraint_freq"} ELSE {}
            IN  /\ budget = cfg[e].training.max_steps
                /\ budget = IF e = "projectile" THEN 5000 ELSE 10000
                /\ \A k \in Frequencies(e) :
                      /\ cfg[e].training[k] <= budget
                      /\ LastRecord(cfg[e].training[k], budget) >= cfg[e].training[k]
                      /\ k \notin odd =>
                            /\ budget % cfg[e].training[k] = 0
                            /\ LastRecord(cfg[e].training[k], budget) = budget
                /\ \A k \in odd :
                      /\ cfg[e].training[k] = 2000
                      /\ budget % cfg[e].training[k] = 1000
                      /\ LastRecord(cfg[e].training[k], budget) = 4000
                /\ \A k \in Frequencies(e) \cap {"rec_validation_freq", "rec_results_freq"} :
                      cfg[e].training[k] = 1000 /\ budget % 1000 = 0
                /\ Frequencies(e) \cap {"rec_validation_freq", "rec_results_freq"} # {}

\* the three solvers have been started with their budgets
C29_Witness ==
    /\ \A e \in Examples : solver[e].status = "solved"
    /\ solver["projectile"].max_steps = 5000
    /\ solver["spring_mass_inverse"].max_steps = 10000
    /\ cfg["projectile"].training["rec_constraint_freq"] = 2000

-----------------------------------------------------------------------------
(* Properties of the bundle across a run that stops at an import *)

\* C30: in every step of the notebooks and for every example: the step in
\* which a run ends with ModuleNotFoundError leaves every file as it was,
\* creating, changing and deleting none; while the last run of an example is
\* an aborted one, its bundle exists only if an earlier run completed and
\* then holds the arrays of the latest completed run; and a plot cell
\* executed in that situation ends with the file-not-found error, nothing
\* drawn or saved, if no run completed, and otherwise renders the bundle of
\* the latest completed run.
C30_AbortLeavesBundle ==
    [][\A e \in Examples :
          /\ (proc[e].state = "running" /\ Aborted(e)') =>
                /\ DOMAIN files' = DOMAIN files
                /\ \A p \in DOMAIN files : files'[p] = files[p]
          /\ (Aborted(e)' /\ e \in Plotters) =>
                IF completed'[e] = {}
                THEN ~BundleExists(e)'
                ELSE /\ BundleExists(e)'
                     /\ files'[BundleFile(e)].run = Max(completed'[e])
                     /\ files'[BundleFile(e)].run < proc'[e].run
          /\ (Aborted(e) /\ e \in Plotters /\ figure'[e] # figure[e]) =>
                IF completed[e] = {}
                THEN figure'[e] = MissingArtifact
                ELSE /\ figure'[e].status = "rendered"
                     /\ figure'[e].run = Max(completed[e])]_vars

\* the second run of projectile stopped at an import after its first run
\* completed, and the figure shows the first run's bundle; the only run of
\* spring-mass forward stopped at an import and its plot cell found no file
C30_Witness ==
    /\ Aborted("projectile") /\ proc["projectile"].run = 2
    /\ completed["projectile"] = {1}
    /\ figure["projectile"].status = "rendered" /\ figure["projectile"].run = 1
    /\ files[BundleFile("projectile")].run = 1
    /\ Aborted("spring_mass_solver") /\ completed["spring_mass_solver"] = {}
    /\ figure["spring_mass_solver"] = MissingArtifact

====
